---- MODULE Spec2Model ----
(***************************************************************************)
(* mkgraph: entity merge (processor.merge_entities), note synthesis        *)
(* (processor.create_or_update_note and its helpers), the change tracker   *)
(* (state.py) and the directory run (processor.process_directory).         *)
(* Strings are represented as sequences of one-character strings.          *)
(***************************************************************************)
EXTENDS Integers, Sequences, FiniteSets, TLC

VARIABLES
    notes,      \* the output directory: note path -> file content
    log,        \* history: the create_or_update_note calls made so far
    answer,     \* the items of the language model's pending answer
    obs,        \* history: the entities observed, each with the note it went to
    nbatch,     \* history: the process_batch / process_file calls made so far
    nitems,     \* history: the items the language model has answered so far
    lastBatch,  \* history: the last process_batch / process_file call
    mIn,        \* merge_entities: the argument entity_lists
    mOut,       \* merge_entities: the returned list
    mDone,      \* merge_entities: has the call returned
    files,      \* the input directory: path -> the file on disk
    stateFile,  \* the persisted Run State file (~/.mkgraph/state.json)
    tracker,    \* the State object in memory
    clock,      \* the time of day, as datetime.now() and st_mtime read it
    run,        \* process_directory: the position and locals of the run
    trk,        \* history: the change tracker calls made so far
    parse,      \* parse_entities_response: the arguments and the outcome
    stem,       \* the filename stem of a note: the display name and the outcome
    conc        \* two invocations at once: the position and locals of each

trackVars == <<files, stateFile, tracker, clock, run, trk>>

otherVars == <<parse, stem, conc>>

vars == <<notes, log, answer, obs, nbatch, nitems, lastBatch, mIn, mOut, mDone,
          trackVars, otherVars>>

(***************************************************************************)
(* Bounds                                                                  *)
(***************************************************************************)
MaxOps == 3          \* create_or_update_note calls in one behaviour
MaxBatches == 2      \* process_batch / process_file calls in one behaviour
MaxListLen == 2      \* records in one list given to merge_entities
MaxItems == 3        \* items the language model answers in one behaviour
MaxRuns == 2         \* runs of process_directory in one behaviour
MaxEdits == 1        \* writes to input files and reset commands in one behaviour
MaxCalls == 2        \* change tracker calls in one behaviour
MaxArrayLen == 2     \* items in the array of a response of the language model
MaxNameLen == 3      \* characters in a display name given to sanitize_filename
MaxChunked == 4      \* files in a list whose slices into batches are compared
MaxBatchSize == 3    \* the batch sizes those slices are taken with

(***************************************************************************)
(* Python str operations                                                   *)
(***************************************************************************)
NL == "\n"
QUOTE == "\""
BACKSLASH == "\\"

Whitespace == {" ", NL, "\t"}

UpperCase == <<"A", "B", "C", "D", "E", "F", "G", "H", "I", "J", "K", "L",
               "M", "N", "O", "P", "Q", "R", "S", "T", "U", "V", "W", "X", "Y", "Z">>
LowerCase == <<"a", "b", "c", "d", "e", "f", "g", "h", "i", "j", "k", "l",
               "m", "n", "o", "p", "q", "r", "s", "t", "u", "v", "w", "x", "y", "z">>

SetMin(S) == CHOOSE x \in S : \A y \in S : x <= y
SetMax(S) == CHOOSE x \in S : \A y \in S : x >= y

\* the lowercase letter of each uppercase letter
ToLower ==
    [u \in {UpperCase[i] : i \in 1..Len(UpperCase)} |->
        LowerCase[CHOOSE i \in 1..Len(UpperCase) : UpperCase[i] = u]]

\* str.lower(), one character
LowerChar(c) == IF c \in DOMAIN ToLower THEN ToLower[c] ELSE c

\* str.lower()
Lower(s) == [i \in 1..Len(s) |-> LowerChar(s[i])]

\* str.strip(chars)
StripChars(s, chars) ==
    LET keep == {i \in 1..Len(s) : s[i] \notin chars}
    IN  IF keep = {} THEN <<>> ELSE SubSeq(s, SetMin(keep), SetMax(keep))

\* str.rstrip(chars)
RStripChars(s, chars) ==
    LET keep == {i \in 1..Len(s) : s[i] \notin chars}
    IN  IF keep = {} THEN <<>> ELSE SubSeq(s, 1, SetMax(keep))

\* str.strip()
\* a strip() that removes nothing
Strip_Nothing(s) == s

Strip(s) == StripChars(s, Whitespace)

\* str.rstrip()
RStrip(s) == RStripChars(s, Whitespace)

\* str.replace(old, new) for one-character old and new
ReplaceChar(s, old, new) == [i \in 1..Len(s) |-> IF s[i] = old THEN new ELSE s[i]]

\* needle in hay
Contains(hay, needle) ==
    \E i \in 0..(Len(hay) - Len(needle)) : SubSeq(hay, i + 1, i + Len(needle)) = needle

\* str.startswith(prefix)
StartsWith(s, prefix) ==
    Len(prefix) <= Len(s) /\ SubSeq(s, 1, Len(prefix)) = prefix

\* the start positions >= from of the non-empty separator sep in s
Occurrences(s, sep, from) ==
    {j \in from..(Len(s) - Len(sep) + 1) : SubSeq(s, j, j + Len(sep) - 1) = sep}

RECURSIVE SplitFrom(_, _, _)
SplitFrom(s, sep, from) ==
    LET occ == Occurrences(s, sep, from)
    IN  IF occ = {}
        THEN <<SubSeq(s, from, Len(s))>>
        ELSE <<SubSeq(s, from, SetMin(occ) - 1)>>
                 \o SplitFrom(s, sep, SetMin(occ) + Len(sep))

\* str.split(sep)
Split(s, sep) == SplitFrom(s, sep, 1)

RECURSIVE Join(_, _)
\* sep.join(parts)
Join(parts, sep) ==
    IF Len(parts) = 0 THEN <<>>
    ELSE IF Len(parts) = 1 THEN parts[1]
    ELSE parts[1] \o sep \o Join(Tail(parts), sep)

RECURSIVE Concat(_)
Concat(parts) == IF parts = <<>> THEN <<>> ELSE Head(parts) \o Concat(Tail(parts))

\* list.insert(at, x) for 0 <= at <= len, at counted as in Python (0-based)
Insert(list, at, x) == SubSeq(list, 1, at) \o <<x>> \o SubSeq(list, at + 1, Len(list))

\* json.dumps of a str: quoted, with the quote and the backslash escaped
JsonEscapeChar(c) ==
    IF c = QUOTE THEN <<BACKSLASH, QUOTE>>
    ELSE IF c = BACKSLASH THEN <<BACKSLASH, BACKSLASH>>
    ELSE IF c = NL THEN <<BACKSLASH, "n">>
    ELSE <<c>>

JsonString(s) == <<QUOTE>> \o Concat([i \in 1..Len(s) |-> JsonEscapeChar(s[i])]) \o <<QUOTE>>

\* json.dumps([s])
JsonDumpsList1(s) == <<"[">> \o JsonString(s) \o <<"]">>

(***************************************************************************)
(* Entity records, merge key                                               *)
(***************************************************************************)
EntityTypes == {"person", "organization", "topic"}

Entity(name, type, description, sources) ==
    [name |-> name, entity_type |-> type, description |-> description, sources |-> sources]

\* the mutant drops the lowercasing
NormalizeEntityName_NoLower(name) ==
    ReplaceChar(ReplaceChar(Strip(name), "_", " "), "-", " ")

\* name.lower().strip().replace("_", " ").replace("-", " ")
NormalizeEntityName(name) ==
    ReplaceChar(ReplaceChar(Strip(Lower(name)), "_", " "), "-", " ")

\* f"{normalize_entity_name(entity.name)}:{entity.entity_type}"; the type is
\* kept as a second component, which is what the ':' join amounts to for the
\* three type tags, none of which holds a ':'
MergeKey(entity) == <<NormalizeEntityName(entity.name), entity.entity_type>>

(***************************************************************************)
(* Note paths                                                              *)
(***************************************************************************)
\* get_notes_dir with the default configuration, and the branch on the type
\* a directory choice that ignores the entity type
NoteDir_AllTopics(type) == "Topics"

NoteDir(type) ==
    IF type = "person" THEN "People"
    ELSE IF type = "organization" THEN "Organizations"
    ELSE "Topics"

HostileChars == {"/", BACKSLASH, ":", "*", "?", QUOTE, "|", "<", ">"}

\* a sanitize_filename that does not strip dots and spaces
SanitizeFilename_NoStrip(name) ==
    [i \in 1..Len(name) |-> IF name[i] \in HostileChars THEN "-" ELSE name[i]]

\* sanitize_filename
SanitizeFilename(name) ==
    StripChars([i \in 1..Len(name) |-> IF name[i] \in HostileChars THEN "-" ELSE name[i]],
               {".", " "})

Unnamed == <<"u", "n", "n", "a", "m", "e", "d">>

\* note_path = note_dir / f"{filename}.md"
NotePath(entity) ==
    LET filename == SanitizeFilename(entity.name)
    IN  [dir |-> NoteDir(entity.entity_type),
         file |-> IF filename = <<>> THEN Unnamed ELSE filename]

(***************************************************************************)
(* Note text                                                               *)
(***************************************************************************)
FrontmatterMarker == <<"-", "-", "-">>
SourcesKey == <<"s", "o", "u", "r", "c", "e", "s", ":">>
SourcesHeading == <<"#", "#", " ", "S", "o", "u", "r", "c", "e", "s">>
SourcesHeadingLower == <<"#", "#", " ", "s", "o", "u", "r", "c", "e", "s">>
ListItem == <<"-", " ">>

\* a create_new_note that leaves out the sources section
CreateNewNote_NoSection(entity, source_file) ==
    FrontmatterMarker \o <<NL>>
    \o SourcesKey \o <<" ">> \o JsonDumpsList1(source_file) \o <<NL>>
    \o FrontmatterMarker \o <<NL>>
    \o <<NL>>
    \o <<"#", " ">> \o entity.name \o <<NL>>
    \o <<NL>>
    \o (IF entity.description # <<>> THEN entity.description \o <<NL>> ELSE <<>>)

\* create_new_note
CreateNewNote(entity, source_file) ==
    FrontmatterMarker \o <<NL>>
    \o SourcesKey \o <<" ">> \o JsonDumpsList1(source_file) \o <<NL>>
    \o FrontmatterMarker \o <<NL>>
    \o <<NL>>
    \o <<"#", " ">> \o entity.name \o <<NL>>
    \o <<NL>>
    \o (IF entity.description # <<>> THEN entity.description \o <<NL>> ELSE <<>>)
    \o <<NL>> \o SourcesHeading \o <<NL>> \o <<NL>> \o ListItem \o source_file \o <<NL>>

RECURSIVE ScanFrontmatter(_, _, _, _)
\* the first loop of update_note_with_source from line i on: the index of the
\* last "sources:" line inside the frontmatter, 0 when there is none (the
\* code's -1)
ScanFrontmatter(lines, i, in_frontmatter, sources_line) ==
    IF i > Len(lines) THEN sources_line
    ELSE IF Strip(lines[i]) = FrontmatterMarker
         THEN IF ~in_frontmatter
              THEN ScanFrontmatter(lines, i + 1, TRUE, sources_line)
              ELSE sources_line
         ELSE IF in_frontmatter /\ StartsWith(Strip(lines[i]), SourcesKey)
              THEN ScanFrontmatter(lines, i + 1, in_frontmatter, i)
              ELSE ScanFrontmatter(lines, i + 1, in_frontmatter, sources_line)

NoMatch == [matched |-> FALSE, group |-> <<>>]

\* re.search(r'sources:\s*\[(.*?)\]', line): group(1) of the leftmost match,
\* NoMatch when there is none
SourcesMatch(line) ==
    LET open(k) ==   \* the index of the '[' that follows "sources:" at k, or 0
            LET rest == {j \in (k + Len(SourcesKey))..Len(line) : line[j] \notin Whitespace}
            IN  IF rest # {} /\ line[SetMin(rest)] = "[" THEN SetMin(rest) ELSE 0
        close(k) == {j \in (open(k) + 1)..Len(line) : line[j] = "]"}
        starts == {k \in Occurrences(line, SourcesKey, 1) : open(k) > 0 /\ close(k) # {}}
    IN  IF starts = {} THEN NoMatch
        ELSE LET k == SetMin(starts)
             IN  [matched |-> TRUE, group |-> SubSeq(line, open(k) + 1, SetMin(close(k)) - 1)]

\* the frontmatter part of update_note_with_source: the lines with the
\* "sources:" line rewritten
UpdateFrontmatter(lines, source_file) ==
    LET sources_line == ScanFrontmatter(lines, 1, FALSE, 0)
        m == IF sources_line >= 1 THEN SourcesMatch(lines[sources_line]) ELSE NoMatch
        existing_sources == Split(StripChars(m.group, {QUOTE}), <<QUOTE, ",", QUOTE>>)
    IN  IF sources_line >= 1 /\ m.matched
           /\ ~Contains(Join(existing_sources, <<>>), source_file)
        THEN [lines EXCEPT ![sources_line] =
                 SourcesKey \o <<" ", "[">>
                 \o Join(Append(existing_sources, <<QUOTE>> \o source_file \o <<QUOTE>>),
                         <<",", " ">>)
                 \o <<"]">>]
        ELSE lines

\* a sources-section update that overwrites the line after the heading
UpdateSourcesSection_Overwrite(lines, source_file) ==
    LET found == {i \in 1..Len(lines) : Lower(Strip(lines[i])) = SourcesHeadingLower}
    IN  IF found # {}
        THEN IF SetMin(found) < Len(lines)
             THEN [lines EXCEPT ![SetMin(found) + 1] = ListItem \o source_file]
             ELSE Append(lines, ListItem \o source_file)
        ELSE Append(lines, <<NL>> \o SourcesHeading \o <<NL, NL>> \o ListItem \o source_file)

\* the sources-section part of update_note_with_source
UpdateSourcesSection(lines, source_file) ==
    LET found == {i \in 1..Len(lines) : Lower(Strip(lines[i])) = SourcesHeadingLower}
    IN  IF found # {}
        THEN Insert(lines, SetMin(found), ListItem \o source_file)
        ELSE Append(lines, <<NL>> \o SourcesHeading \o <<NL, NL>> \o ListItem \o source_file)

\* update_note_with_source
UpdateNoteWithSource(existing_content, entity, source_file) ==
    Join(UpdateSourcesSection(UpdateFrontmatter(Split(existing_content, <<NL>>), source_file),
                              source_file),
         <<NL>>)

\* the mutant never recognises a source as linked
SourceLinked_Never(existing_content, source_file) == FALSE

\* "if source_file in existing_content"
SourceLinked(existing_content, source_file) == Contains(existing_content, source_file)

Absent == <<"absent">>

\* create_or_update_note with update_existing left at its default True: the
\* content of the note file afterwards, and whether the file was written
\* create_or_update_note with update_existing=False: the note is written anew
CreateOrUpdateResult_Overwrite(existing, entity, source_file) ==
    [content |-> CreateNewNote(entity, source_file), wrote |-> TRUE]

\* a create_or_update_note that writes the note back in every branch
CreateOrUpdateResult_Rewrite(existing, entity, source_file) ==
    IF existing # Absent
    THEN IF SourceLinked(existing, source_file)
         THEN IF entity.description # <<>> /\ ~Contains(existing, entity.description)
              THEN [content |-> RStrip(existing) \o <<NL, NL>> \o entity.description \o <<NL>>,
                    wrote |-> TRUE]
              ELSE [content |-> existing, wrote |-> TRUE]
         ELSE [content |-> UpdateNoteWithSource(existing, entity, source_file),
               wrote |-> TRUE]
    ELSE [content |-> CreateNewNote(entity, source_file), wrote |-> TRUE]

CreateOrUpdateResult(existing, entity, source_file) ==
    IF existing # Absent
    THEN IF SourceLinked(existing, source_file)
         THEN IF entity.description # <<>> /\ ~Contains(existing, entity.description)
              THEN [content |-> RStrip(existing) \o <<NL, NL>> \o entity.description \o <<NL>>,
                    wrote |-> TRUE]
              ELSE [content |-> existing, wrote |-> FALSE]
         ELSE [content |-> UpdateNoteWithSource(existing, entity, source_file),
               wrote |-> TRUE]
    ELSE [content |-> CreateNewNote(entity, source_file), wrote |-> TRUE]

\* the note file at path p, Absent when there is none
ReadNote(dir, p) == IF p \in DOMAIN dir THEN dir[p] ELSE Absent

\* the output directory after create_or_update_note(entity, output_dir, source_file)
WriteNote(dir, entity, source_file) ==
    LET p == NotePath(entity)
        r == CreateOrUpdateResult(ReadNote(dir, p), entity, source_file)
    IN  [q \in DOMAIN dir \cup {p} |-> IF q = p THEN r.content ELSE dir[q]]

(***************************************************************************)
(* Inputs of the note operations                                           *)
(***************************************************************************)
SrcX == <<"x">>
SrcY == <<"y">>
SrcZX == <<"z", "x">>
Sources == {SrcX, SrcY, SrcZX}

NameAb == <<"A", "_", "b">>
Nameab == <<"a", " ", "b">>
DescP == <<"p">>
DescQ == <<"q", "q">>
\* a description that the language model wrote as a list item
DescItem == <<"-", " ", "q">>

\* the observations create_or_update_note is called with
NoteEntities ==
    { Entity(NameAb, "person", DescP, <<>>),
      Entity(NameAb, "person", DescQ, <<>>),
      Entity(NameAb, "person", <<>>, <<>>),
      Entity(Nameab, "topic", DescP, <<>>),
      Entity(Nameab, "topic", DescItem, <<>>) }

\* a note written by hand, without metadata block or sources section
HandNote == <<"#", " ">> \o NameAb \o <<NL>>

InitialDirs ==
    { <<>>,
      [p \in {NotePath(Entity(NameAb, "person", <<>>, <<>>))} |-> HandNote] }

(***************************************************************************)
(* Change tracker (state.py)                                               *)
(***************************************************************************)
\* Optional[str]: None, or a value
None == <<>>
Some(v) == <<v>>

\* a Python dict: its items <<key, value>> in insertion order, keys unique
DictHas(d, k) == \E i \in 1..Len(d) : d[i][1] = k
DictGet(d, k) == d[CHOOSE i \in 1..Len(d) : d[i][1] = k][2]
DictSet(d, k, v) ==
    IF DictHas(d, k)
    THEN [i \in 1..Len(d) |-> IF d[i][1] = k THEN <<k, v>> ELSE d[i]]
    ELSE Append(d, <<k, v>>)
DictItems(d) == {d[i] : i \in 1..Len(d)}

FileState(path, hash, last_processed) ==
    [path |-> path, hash |-> hash, last_processed |-> last_processed]

State(processed_files, last_run) ==
    [processed_files |-> processed_files, last_run |-> last_run]

\* State()
EmptyState == State(<<>>, None)

\* a file on disk: a regular readable file, one that cannot be opened, or none
RegularFile(content, mtime) == [kind |-> "file", content |-> content, mtime |-> mtime]
UnreadableFile(content, mtime) ==
    [kind |-> "unreadable", content |-> content, mtime |-> mtime]
MissingFile == [kind |-> "missing", content |-> <<>>, mtime |-> 0]

\* the exception open() and stat() raise
OSError == <<"OSError">>

\* hashlib.sha256(...).hexdigest(): distinct contents have distinct digests
Sha256(content) == <<"sha256">> \o content

\* file_path.stat().st_mtime
StatMtime(fs, file_path) ==
    IF fs[file_path].kind = "missing" THEN OSError
    ELSE <<"st_mtime", fs[file_path].mtime>>

ComputeFileHash(fs, file_path) ==
    IF fs[file_path].kind = "file" THEN Sha256(fs[file_path].content) ELSE OSError

\* except (OSError, FileNotFoundError): return True
OnOSError_FailClosed == "False"
OnOSError == "True"

\* a change check that trusts the modification time
HasFileChangedOutcome_ByMtime(fs, file_path, state) ==
    IF ~DictHas(state.processed_files, file_path) THEN "True"
    ELSE IF fs[file_path].kind # "file" THEN "True"
    ELSE IF fs[file_path].mtime > DictGet(state.processed_files, file_path).last_processed
         THEN "True" ELSE "False"

\* has_file_changed: what the call returns ("True", "False"), or the
\* exception that leaves it
HasFileChangedOutcome(fs, file_path, state) ==
    IF ~DictHas(state.processed_files, file_path) THEN "True"
    ELSE LET stored == DictGet(state.processed_files, file_path)
             current_mtime == StatMtime(fs, file_path)
             current_hash == ComputeFileHash(fs, file_path)
         IN  IF current_mtime = OSError THEN OnOSError
             ELSE IF current_hash = OSError THEN OnOSError
             ELSE IF current_hash # stored.hash THEN "True" ELSE "False"

HasFileChanged(fs, file_path, state) ==
    HasFileChangedOutcome(fs, file_path, state) = "True"

\* mark_file_processed; the State is left as it was when hashing raises
MarkFileProcessed(fs, file_path, state, now) ==
    LET hash == ComputeFileHash(fs, file_path)
    IN  IF hash = OSError THEN state
        ELSE [state EXCEPT !.processed_files =
                  DictSet(@, file_path, FileState(file_path, hash, now))]

GetUnprocessedFiles_KeepAll(fs, file_paths, state) == file_paths
GetUnprocessedFiles(fs, file_paths, state) ==
    SelectSeq(file_paths, LAMBDA fp : HasFileChanged(fs, fp, state))

\* JSON values: null, a string, an object as its members <<key, value>>
JsonNull == <<"null">>
JsonStr(s) == <<"str", s>>
JsonMember(obj, key) == obj[CHOOSE i \in 1..Len(obj) : obj[i][1] = key][2]

\* the state file does not exist
NoStateFile == <<>>

\* save_state: the document json.dump writes
SaveState(state) ==
    LET pf == state.processed_files
    IN  << <<"processed_files",
             [i \in 1..Len(pf) |->
                 <<pf[i][1], << <<"path", JsonStr(pf[i][2].path)>>,
                                <<"hash", JsonStr(pf[i][2].hash)>>,
                                <<"last_processed", JsonStr(pf[i][2].last_processed)>> >> >>]>>,
           <<"last_run", IF state.last_run = None THEN JsonNull
                         ELSE JsonStr(state.last_run[1])>> >>

RECURSIVE LoadProcessedFiles(_)
\* the loop of load_state over data["processed_files"].items()
LoadProcessedFiles(members) ==
    IF members = <<>> THEN <<>>
    ELSE LET path == members[Len(members)][1]
             file_data == members[Len(members)][2]
         IN  DictSet(LoadProcessedFiles(SubSeq(members, 1, Len(members) - 1)), path,
                     FileState(JsonMember(file_data, "path")[2],
                               JsonMember(file_data, "hash")[2],
                               JsonMember(file_data, "last_processed")[2]))

LoadState_NoLastRun(file) ==
    IF file = NoStateFile THEN EmptyState
    ELSE State(LoadProcessedFiles(JsonMember(file, "processed_files")), None)
LoadState(file) ==
    IF file = NoStateFile THEN EmptyState
    ELSE LET last_run == JsonMember(file, "last_run")
         IN  State(LoadProcessedFiles(JsonMember(file, "processed_files")),
                   IF last_run = JsonNull THEN None ELSE Some(last_run[2]))

\* state.reset_state(): the state file is removed
ResetState(file) == NoStateFile

\* the input files
Paths == {SrcX, SrcY}

\* file contents
ContentU == <<"u">>
ContentV == <<"v">>
Contents == {ContentU, ContentV}

\* process_directory is not running
IdleRun ==
    [phase |-> "idle", use_state |-> FALSE, force |-> FALSE, batch_size |-> 1,
     md_files |-> <<>>, files_to_process |-> <<>>, i |-> 0,
     batch |-> <<>>, pending |-> <<>>]

NoAbort ==
    [aborted |-> FALSE, at |-> "", use_state |-> FALSE, force |-> FALSE,
     batch |-> <<>>, completed |-> <<>>]

NoSelection == [called |-> FALSE, fs |-> <<>>, file_paths |-> <<>>,
                state |-> EmptyState, result |-> <<>>]

NoCheck == [called |-> FALSE, kind |-> "", recorded |-> FALSE, outcome |-> ""]

NoHistory ==
    [op |-> "", nruns |-> 0, nedits |-> 0, ncalls |-> 0,
     \* the directory run in progress
     extractions |-> 0, noteWrites |-> 0, stateWrites |-> 0, stateReads |-> 0,
     planned |-> 0, written |-> 0, marks |-> <<>>, completed |-> <<>>,
     notesAtStart |-> <<>>, notesAtCommit |-> <<>>, stateFileAtStart |-> NoStateFile,
     abortedAt |-> "", after |-> NoAbort, sinceReset |-> FALSE, afterReset |-> FALSE,
     beforeReset |-> NoStateFile,
     \* per input file, the contents process_batch has read from it
     read |-> [p \in Paths |-> {}],
     \* the change tracker calls
     marked |-> <<>>, saved |-> <<>>, selection |-> NoSelection, check |-> NoCheck]

\* parse_entities_response is not called
NoParse ==
    [done |-> FALSE, response |-> [kind |-> "text", brackets |-> "none",
                                   value |-> [json |-> "null", items |-> <<>>]],
     fallback_sources |-> <<>>, raised |-> FALSE, error |-> "", entities |-> <<>>]

\* the filename stem of no note is derived
NoStem == [done |-> FALSE, name |-> <<>>, filename |-> <<>>]

\* there is one invocation of the tool at most
NoConc == <<>>

NoTracking ==
    /\ parse = NoParse
    /\ stem = NoStem
    /\ conc = NoConc
    /\ files = [p \in Paths |-> MissingFile]
    /\ stateFile = NoStateFile
    /\ tracker = EmptyState
    /\ clock = 0
    /\ run = IdleRun
    /\ trk = NoHistory

(***************************************************************************)
(* Specification of the note operations                                    *)
(***************************************************************************)
NoBatch == [kind |-> "none", files |-> <<>>, written |-> <<>>,
            config |-> <<>>, extracted |-> <<>>]

NoBatches == /\ answer = <<>>
             /\ obs = {}
             /\ nbatch = 0
             /\ nitems = 0
             /\ lastBatch = NoBatch

NoMerge == /\ mIn = <<>>
           /\ mOut = <<>>
           /\ mDone = FALSE

Init ==
    /\ notes \in InitialDirs
    /\ log = <<>>
    /\ NoBatches
    /\ NoMerge
    /\ NoTracking

\* one call create_or_update_note(entity, output_dir, source_file), as made by
\* the callers for each observation
CreateOrUpdateNote ==
    \E entity \in NoteEntities, source_file \in Sources :
        /\ Len(log) < MaxOps
        /\ notes' = WriteNote(notes, entity, source_file)
        /\ log' = Append(log, [entity |-> entity, source |-> source_file,
                               before |-> ReadNote(notes, NotePath(entity)),
                               wrote |-> CreateOrUpdateResult(
                                             ReadNote(notes, NotePath(entity)),
                                             entity, source_file).wrote])
        /\ UNCHANGED <<answer, obs, nbatch, nitems, lastBatch, mIn, mOut, mDone, trackVars, otherVars>>

Next == CreateOrUpdateNote

Spec == Init /\ [][Next]_vars

(***************************************************************************)
(* merge_entities                                                          *)
(***************************************************************************)
\* the mutant appends without the membership test
AddSources_NoCheck(existing_sources, new_sources) == existing_sources \o new_sources

\* the mutant forgets the sources of a colliding record
AddSources_Drop(existing_sources, new_sources) == existing_sources

RECURSIVE AddSources(_, _)
\* for source in entity.sources: if source not in existing.sources: append
AddSources(existing_sources, new_sources) ==
    IF new_sources = <<>> THEN existing_sources
    ELSE LET source == Head(new_sources)
         IN  AddSources(IF \E i \in 1..Len(existing_sources) : existing_sources[i] = source
                        THEN existing_sources
                        ELSE Append(existing_sources, source),
                        Tail(new_sources))

\* the mutant replaces on equal length too
MergeDescription_OnTie(existing_description, description) ==
    IF description # <<>> /\ Len(description) >= Len(existing_description)
    THEN description ELSE existing_description

\* the mutant keeps the first description whatever its length
MergeDescription_KeepFirst(existing_description, description) == existing_description

\* if entity.description and len(entity.description) > len(existing.description)
MergeDescription(existing_description, description) ==
    IF description # <<>> /\ Len(description) > Len(existing_description)
    THEN description ELSE existing_description

\* the body of the inner loop: merged is the dict's values in insertion order
MergeOne(merged, entity) ==
    LET hit == {i \in 1..Len(merged) : MergeKey(merged[i]) = MergeKey(entity)}
    IN  IF hit # {}
        THEN LET i == CHOOSE j \in hit : TRUE
             IN  [merged EXCEPT
                     ![i].sources = AddSources(merged[i].sources, entity.sources),
                     ![i].description = MergeDescription(merged[i].description,
                                                         entity.description)]
        ELSE Append(merged, entity)

RECURSIVE MergeList(_, _)
\* for entity in entities
MergeList(merged, entities) ==
    IF entities = <<>> THEN merged
    ELSE MergeList(MergeOne(merged, Head(entities)), Tail(entities))

RECURSIVE MergeLists(_, _)
\* for entities in entity_lists
MergeLists(merged, entity_lists) ==
    IF entity_lists = <<>> THEN merged
    ELSE MergeLists(MergeList(merged, Head(entity_lists)), Tail(entity_lists))

\* merge_entities
MergeEntities(entity_lists) == MergeLists(<<>>, entity_lists)

(***************************************************************************)
(* Specification of merge_entities as a function of its argument           *)
(***************************************************************************)
SrcZ == <<"z">>
NameaB == <<"a", "-", "B">>
NameAB == <<"a", "b">>
DescS == <<"s">>

\* records whose source lists hold no identifier twice, as the parser and the
\* Entity Record's data model give them
MergeRecords ==
    { Entity(NameAb, "person", DescP, <<SrcX>>),
      Entity(Nameab, "person", DescS, <<SrcY, SrcX>>),
      Entity(NameaB, "person", DescQ, <<SrcY>>),
      Entity(Nameab, "person", <<>>, <<SrcZ>>),
      Entity(NameAB, "person", DescQ, <<SrcX, SrcY>>),
      Entity(NameAb, "topic", <<>>, <<SrcX>>) }

\* the sequences over S of length at most n
SeqUpTo(S, n) == UNION {[1..k -> S] : k \in 0..n}

MergeInputs ==
    LET L == SeqUpTo(MergeRecords, MaxListLen)
    IN  {<<A>> : A \in L} \cup {<<A, B>> : A \in L, B \in L}

InitMerge ==
    /\ mIn \in MergeInputs
    /\ mOut = <<>>
    /\ mDone = FALSE
    /\ notes = <<>>
    /\ log = <<>>
    /\ NoBatches
    /\ NoTracking

\* the call merge_entities(mIn)
MergeCall ==
    /\ ~mDone
    /\ mOut' = MergeEntities(mIn)
    /\ mDone' = TRUE
    /\ UNCHANGED <<mIn, notes, log, answer, obs, nbatch, nitems, lastBatch, trackVars, otherVars>>

NextMerge == MergeCall

SpecMerge == InitMerge /\ [][NextMerge]_vars

(***************************************************************************)
(* process_batch and process_file                                          *)
(***************************************************************************)
\* one decoded item of the model's answer; an absent "source" field is <<>>
Item(name, type, description, source) ==
    [name |-> name, type |-> type, description |-> description, source |-> source]

PersonTag == <<"p", "e", "r", "s", "o", "n">>
OrganizationTag == <<"o", "r", "g", "a", "n", "i", "z", "a", "t", "i", "o", "n">>
TopicTag == <<"t", "o", "p", "i", "c">>

\* the type tag as the Entity record carries it
TypeOf(tag) ==
    IF tag = PersonTag THEN "person"
    ELSE IF tag = OrganizationTag THEN "organization"
    ELSE "topic"

RECURSIVE ParseItems(_, _)
\* the loop of parse_entities_response over the decoded items
ParseItems(data, fallback_sources) ==
    IF data = <<>> THEN <<>>
    ELSE LET item == Head(data)
             entity_type == Lower(item.type)
             name == Strip(item.name)
             source == IF item.source = <<>> /\ fallback_sources # <<>>
                       THEN fallback_sources[1]
                       ELSE item.source
             rest == ParseItems(Tail(data), fallback_sources)
         IN  IF entity_type \notin {PersonTag, OrganizationTag, TopicTag}
             THEN rest
             ELSE IF name = <<>>
             THEN rest
             ELSE <<Entity(name, TypeOf(entity_type), item.description,
                           IF source # <<>> THEN <<source>> ELSE <<>>)>> \o rest

RECURSIVE WriteSources(_, _, _)
\* for source in entity.sources: create_or_update_note(entity, output_dir, source)
WriteSources(dir, entity, sources) ==
    IF sources = <<>> THEN dir
    ELSE WriteSources(WriteNote(dir, entity, Head(sources)), entity, Tail(sources))

RECURSIVE WriteMerged(_, _)
\* for entity in merged: ...
WriteMerged(dir, merged) ==
    IF merged = <<>> THEN dir
    ELSE WriteMerged(WriteSources(dir, Head(merged), Head(merged).sources), Tail(merged))

RECURSIVE WriteEntities(_, _, _)
\* the loop of process_file: entity.sources.append(str(file_path)), then
\* create_or_update_note(entity, output_dir, str(file_path))
WriteEntities(dir, entities, file_path) ==
    IF entities = <<>> THEN dir
    ELSE WriteEntities(WriteNote(dir, Head(entities), file_path), Tail(entities), file_path)

(***************************************************************************)
(* Configuration (config.py)                                               *)
(***************************************************************************)
DEFAULT_ENTITY_TYPES == <<"person", "organization", "topic">>

EntityTypeConfig(enabled) == [directory |-> <<>>, template |-> None, enabled |-> enabled]

\* a Config with its default output directories
Config(entity_types, entity_type_config) ==
    [entity_types |-> entity_types, entity_type_config |-> entity_type_config,
     output_directories |-> <<>>]

\* an is_entity_enabled that looks at the type list only
IsEntityEnabled_ListOnly(entity_type, config) ==
    IF config # None
    THEN \E i \in 1..Len(config[1].entity_types) : config[1].entity_types[i] = entity_type
    ELSE \E i \in 1..Len(DEFAULT_ENTITY_TYPES) : DEFAULT_ENTITY_TYPES[i] = entity_type

\* is_entity_enabled(entity_type, config), config being None or Some(Config)
IsEntityEnabled(entity_type, config) ==
    IF config # None /\ DictHas(config[1].entity_type_config, entity_type)
    THEN DictGet(config[1].entity_type_config, entity_type).enabled
    ELSE IF config # None
    THEN \E i \in 1..Len(config[1].entity_types) : config[1].entity_types[i] = entity_type
    ELSE \E i \in 1..Len(DEFAULT_ENTITY_TYPES) : DEFAULT_ENTITY_TYPES[i] = entity_type

\* if config: entities = [e for e in entities if is_entity_enabled(e.entity_type, config)]
FilterEnabled(entities, config) ==
    IF config # None
    THEN SelectSeq(entities, LAMBDA e : IsEntityEnabled(e.entity_type, config))
    ELSE entities

\* the configurations of a call: none, the defaults, a type list without
\* topics, and per-type settings that contradict the type list
DefaultConfig == Config(DEFAULT_ENTITY_TYPES, <<>>)
ListConfig == Config(<<"person", "organization">>, <<>>)
PerTypeConfig == Config(<<"person", "organization">>,
                        << <<"person", EntityTypeConfig(FALSE)>>,
                           <<"topic", EntityTypeConfig(TRUE)>> >>)
Configs == {None, Some(DefaultConfig), Some(ListConfig), Some(PerTypeConfig)}

(***************************************************************************)
(* Specification of the file and batch operations                          *)
(***************************************************************************)
PersonWord == <<"P", "e", "r", "s", "o", "n">>

\* what the model may report: an entity, attributed to a file or to none
AnswerItems ==
    { Item(NameAb, PersonWord, DescP, SrcX),
      Item(NameAb, PersonWord, DescP, <<>>),
      Item(Nameab, PersonTag, DescQ, SrcY),
      Item(Nameab, PersonTag, DescQ, <<>>),
      Item(NameAb, TopicTag, <<>>, <<>>) }

\* the input files of a call of process_batch
BatchFiles == {<<SrcX>>, <<SrcX, SrcY>>}

InitBatch ==
    /\ notes = <<>>
    /\ log = <<>>
    /\ NoBatches
    /\ NoMerge
    /\ NoTracking

\* the language model adds one item to the answer it is about to give
ModelAnswers ==
    \E item \in AnswerItems :
        /\ nbatch < MaxBatches
        /\ nitems < MaxItems
        /\ answer' = Append(answer, item)
        /\ nitems' = nitems + 1
        /\ UNCHANGED <<notes, log, obs, nbatch, lastBatch, mIn, mOut, mDone, trackVars, otherVars>>

\* the observations of a batch: each extracted entity with the note its
\* merged record is written to
BatchObs(entities, merged) ==
    {[via |-> "batch", name |-> entities[ij[1]].name,
      entity_type |-> entities[ij[1]].entity_type, path |-> NotePath(merged[ij[2]])] :
        ij \in {p \in (1..Len(entities)) \X (1..Len(merged)) :
                   MergeKey(entities[p[1]]) = MergeKey(merged[p[2]])}}

\* process_batch(file_paths, output_dir, config=config), the model's answer
\* being answer
ProcessBatch ==
    \E file_paths \in BatchFiles, config \in Configs :
        LET extracted == ParseItems(answer, file_paths)
            entities == FilterEnabled(extracted, config)
            merged == MergeEntities(<<entities>>)
        IN  /\ nbatch < MaxBatches
            /\ notes' = WriteMerged(notes, merged)
            /\ answer' = <<>>
            /\ nbatch' = nbatch + 1
            /\ obs' = obs \cup BatchObs(entities, merged)
            /\ lastBatch' = [kind |-> "batch", files |-> file_paths, written |-> merged,
                             config |-> config, extracted |-> extracted]
            /\ UNCHANGED <<log, nitems, mIn, mOut, mDone, trackVars, otherVars>>

\* process_file(file_path, output_dir, config=config), the model's answer
\* being answer
ProcessFile ==
    \E file_path \in {SrcX, SrcY}, config \in Configs :
        LET extracted == ParseItems(answer, <<>>)
            entities == FilterEnabled(extracted, config)
        IN  /\ nbatch < MaxBatches
            /\ notes' = WriteEntities(notes, entities, file_path)
            /\ answer' = <<>>
            /\ nbatch' = nbatch + 1
            /\ obs' = obs \cup {[via |-> "file", name |-> entities[i].name,
                                 entity_type |-> entities[i].entity_type,
                                 path |-> NotePath(entities[i])] : i \in 1..Len(entities)}
            /\ lastBatch' = [kind |-> "file", files |-> <<file_path>>,
                             written |-> [i \in 1..Len(entities) |->
                                 [entities[i] EXCEPT !.sources = Append(@, file_path)]],
                             config |-> config, extracted |-> extracted]
            /\ UNCHANGED <<log, nitems, mIn, mOut, mDone, trackVars, otherVars>>

NextBatch == ModelAnswers \/ ProcessBatch \/ ProcessFile

SpecBatch == InitBatch /\ [][NextBatch]_vars

(***************************************************************************)
(* Specification of the response parser (parse_entities_response)          *)
(***************************************************************************)
\* JSON values beside null and strings: a number, and a key that is absent
JsonNum == <<"num">>
JsonMissing == <<"missing">>

\* a decoded item of the response: an object with its four keys, each a JSON
\* value or absent, or a value that is no object
ObjectItem(name, type, description, source) ==
    [json |-> "object", name |-> name, type |-> type,
     description |-> description, source |-> source]
OtherItem(json) ==
    [json |-> json, name |-> JsonMissing, type |-> JsonMissing,
     description |-> JsonMissing, source |-> JsonMissing]

\* a decoded JSON value as the loop "for item in data" sees it: the elements
\* of an array, the keys of an object, the characters of a string
DecodedArray(items) == [json |-> "array", items |-> items]
DecodedObject(keys) == [json |-> "object", items |-> [i \in 1..Len(keys) |-> OtherItem("string")]]
DecodedString(chars) == [json |-> "string", items |-> [i \in 1..Len(chars) |-> OtherItem("string")]]
DecodedScalar(json) == [json |-> json, items |-> <<>>]

\* the raw response: text that json.loads decodes, or text that it rejects,
\* in which re.search(r'\[.*\]') finds nothing, finds something json.loads
\* rejects too, or finds an array
JsonText(value) == [kind |-> "json", brackets |-> "none", value |-> value]
OtherText(brackets, value) == [kind |-> "text", brackets |-> brackets, value |-> value]

\* item.get(key, ""): the default for an absent key
GetOrEmpty(v) == IF v = JsonMissing THEN JsonStr(<<>>) ELSE v

\* is the value a str
IsStr(v) == v[1] = "str"

Returned(entities) == [raised |-> FALSE, error |-> "", entities |-> entities]
Raised(error) == [raised |-> TRUE, error |-> error, entities |-> <<>>]

RECURSIVE ParseLoop(_, _)
\* the loop "for item in data" of parse_entities_response, with the
\* exceptions its attribute lookups raise
ParseLoop(data, fallback_sources) ==
    IF data = <<>> THEN Returned(<<>>)
    ELSE LET item == Head(data)
             type == GetOrEmpty(item.type)
             name == GetOrEmpty(item.name)
             rest == ParseLoop(Tail(data), fallback_sources)
         IN  IF item.json # "object" THEN Raised("AttributeError")        \* item.get
             ELSE IF ~IsStr(type) THEN Raised("AttributeError")           \* .lower()
             ELSE IF Lower(type[2]) \notin {PersonTag, OrganizationTag, TopicTag}
                  THEN rest
             ELSE IF ~IsStr(name) THEN Raised("AttributeError")           \* .strip()
             ELSE IF rest.raised THEN rest
             ELSE Returned(ParseItems(<<Item(name[2], type[2],
                                             GetOrEmpty(item.description)[2],
                                             GetOrEmpty(item.source)[2])>>,
                                      fallback_sources)
                           \o rest.entities)

\* parse_entities_response(response, fallback_sources): the list returned, or
\* the exception raised
ParseEntitiesResponse(response, fallback_sources) ==
    LET decoded == response.kind = "json" \/ response.brackets = "array"
        data == response.value
    IN  IF ~decoded THEN Returned(<<>>)
        ELSE IF data.json \notin {"array", "object", "string"} THEN Raised("TypeError")
        ELSE ParseLoop(data.items, fallback_sources)

PlaceTag == <<"p", "l", "a", "c", "e">>
NamePadded == <<" ">> \o Nameab \o <<" ">>
NameBlank == <<" ", " ">>

\* the items the language model may put into its array
ResponseItems ==
    { ObjectItem(JsonStr(NameAb), JsonStr(PersonWord), JsonStr(DescP), JsonMissing),
      ObjectItem(JsonStr(NamePadded), JsonStr(TopicTag), JsonMissing, JsonStr(SrcY)),
      ObjectItem(JsonStr(NameAb), JsonStr(PlaceTag), JsonStr(DescP), JsonMissing),
      ObjectItem(JsonStr(NameBlank), JsonStr(PersonTag), JsonMissing, JsonMissing),
      ObjectItem(JsonStr(NameAb), JsonMissing, JsonMissing, JsonMissing),
      ObjectItem(JsonNull, JsonStr(PlaceTag), JsonMissing, JsonMissing),
      ObjectItem(JsonStr(NameAb), JsonNull, JsonMissing, JsonMissing),
      ObjectItem(JsonNum, JsonStr(PersonTag), JsonMissing, JsonMissing),
      OtherItem("string") }

ArraysUpTo(n) == UNION {[1..k -> ResponseItems] : k \in 0..n}

\* the responses of the language model
Responses ==
    {JsonText(DecodedArray(items)) : items \in ArraysUpTo(MaxArrayLen)}
    \cup {OtherText("array", DecodedArray(items)) : items \in ArraysUpTo(1)}
    \cup { JsonText(DecodedObject(<<"entities">>)), JsonText(DecodedObject(<<>>)),
           JsonText(DecodedString(<<"o", "k">>)), JsonText(DecodedScalar("number")),
           JsonText(DecodedScalar("null")),
           OtherText("none", DecodedScalar("null")), OtherText("bad", DecodedScalar("null")) }

FallbackSources == {<<>>, <<SrcX>>, <<SrcX, SrcY>>}

InitParse ==
    /\ parse \in {[NoParse EXCEPT !.response = r, !.fallback_sources = f] :
                     r \in Responses, f \in FallbackSources}
    /\ stem = NoStem
    /\ conc = NoConc
    /\ notes = <<>>
    /\ log = <<>>
    /\ NoBatches
    /\ NoMerge
    /\ files = [p \in Paths |-> MissingFile]
    /\ stateFile = NoStateFile
    /\ tracker = EmptyState
    /\ clock = 0
    /\ run = IdleRun
    /\ trk = NoHistory

\* the call parse_entities_response(response, fallback_sources)
ParseCall ==
    LET r == ParseEntitiesResponse(parse.response, parse.fallback_sources)
    IN  /\ ~parse.done
        /\ parse' = [parse EXCEPT !.done = TRUE, !.raised = r.raised,
                                  !.error = r.error, !.entities = r.entities]
        /\ UNCHANGED <<notes, log, answer, obs, nbatch, nitems, lastBatch,
                       mIn, mOut, mDone, trackVars, stem, conc>>

NextParse == ParseCall

SpecParse == InitParse /\ [][NextParse]_vars

(***************************************************************************)
(* Specification of the filename derivation (sanitize_filename and the     *)
(* "unnamed" fallback of create_or_update_note)                            *)
(***************************************************************************)
\* the characters of the display names: the characters sanitize_filename
\* treats specially, and a letter
NameChars == HostileChars \cup {".", " ", "a"}

DisplayNames == UNION {[1..k -> NameChars] : k \in 0..MaxNameLen}

InitName ==
    /\ stem \in {[NoStem EXCEPT !.name = name] : name \in DisplayNames}
    /\ conc = NoConc
    /\ parse = NoParse
    /\ notes = <<>>
    /\ log = <<>>
    /\ NoBatches
    /\ NoMerge
    /\ files = [p \in Paths |-> MissingFile]
    /\ stateFile = NoStateFile
    /\ tracker = EmptyState
    /\ clock = 0
    /\ run = IdleRun
    /\ trk = NoHistory

\* filename = sanitize_filename(entity.name); if not filename: filename = "unnamed"
DeriveFilename ==
    /\ ~stem.done
    /\ stem' = [stem EXCEPT !.done = TRUE,
                            !.filename = NotePath(Entity(stem.name, "topic", <<>>, <<>>)).file]
    /\ UNCHANGED <<notes, log, answer, obs, nbatch, nitems, lastBatch,
                   mIn, mOut, mDone, trackVars, parse, conc>>

NextName == DeriveFilename

SpecName == InitName /\ [][NextName]_vars

(***************************************************************************)
(* Specification of the directory run (process_directory) and of the       *)
(* reset command                                                           *)
(***************************************************************************)
\* list(input_dir.glob("**/*.md")): the files that exist, in directory order
DiscoverOrder == <<SrcX, SrcY>>
Discover(fs) == SelectSeq(DiscoverOrder, LAMBDA p : fs[p].kind # "missing")

\* the use_state and force arguments: a tracked run, a forced one, one
\* without tracking
RunModes ==
    { [use_state |-> TRUE, force |-> FALSE],
      [use_state |-> TRUE, force |-> TRUE],
      [use_state |-> FALSE, force |-> FALSE] }

\* the batch_size argument
BatchSizes == {1, 2}

\* what the language model may answer for a batch
DirAnswers ==
    { <<>>,
      <<Item(NameAb, PersonTag, DescP, <<>>)>>,
      <<Item(NameAb, PersonTag, DescP, SrcX), Item(Nameab, PersonTag, DescQ, SrcY)>> }

\* a slice that runs to the end of the list
Batch_ToEnd(files_to_process, i, batch_size) ==
    SubSeq(files_to_process, i + 1, Len(files_to_process))

\* files_to_process[i:i + batch_size]
Batch(files_to_process, i, batch_size) ==
    SubSeq(files_to_process, i + 1,
           IF i + batch_size < Len(files_to_process) THEN i + batch_size
           ELSE Len(files_to_process))

RECURSIVE NoteWrites(_)
\* the calls the write loop of process_batch makes: for entity in merged:
\* for source in entity.sources: create_or_update_note(entity, output_dir, source)
NoteWrites(merged) ==
    IF merged = <<>> THEN <<>>
    ELSE [k \in 1..Len(Head(merged).sources) |-> <<Head(merged), Head(merged).sources[k]>>]
         \o NoteWrites(Tail(merged))

RECURSIVE MarkFiles(_, _, _, _)
\* for fp in batch: mark_file_processed(fp, state)
MarkFiles(fs, batch, state, now) ==
    IF batch = <<>> THEN state
    ELSE MarkFiles(fs, Tail(batch), MarkFileProcessed(fs, Head(batch), state, now), now)

\* if not files_to_process: return
NothingToProcess_Never(files_to_process) == FALSE
NothingToProcess(files_to_process) == files_to_process = <<>>

\* the loop over range(0, len(files_to_process), batch_size): another batch,
\* or the end of the loop
LoopHead(files_to_process, i) ==
    IF i < Len(files_to_process) THEN "extract" ELSE "finalize"

\* process_batch has returned: every note write of the batch was made
WritesComplete_Early(r) == r.phase = "write"
WritesComplete(r) == r.phase = "write" /\ r.pending = <<>>

\* no run of process_directory is in progress
Resting == run.phase \in {"idle", "done", "aborted"}

\* the state file an earlier run over the same files has left, when the
\* model found no entity in them
EarlierRun(fs) ==
    IF Discover(fs) = <<>> THEN NoStateFile
    ELSE SaveState([MarkFiles(fs, Discover(fs), EmptyState, 0) EXCEPT !.last_run = Some(0)])

InitDir ==
    /\ parse = NoParse
    /\ stem = NoStem
    /\ conc = NoConc
    /\ notes = <<>>
    /\ log = <<>>
    /\ NoBatches
    /\ NoMerge
    /\ files \in [Paths -> {MissingFile, RegularFile(ContentU, 0)}]
    /\ stateFile \in {NoStateFile, EarlierRun(files)}
    /\ tracker = EmptyState
    /\ clock = 1
    /\ run = IdleRun
    /\ trk = NoHistory

\* process_directory up to the loop: discovery, load_state, selection
StartRun ==
    \E mode \in RunModes, batch_size \in BatchSizes :
        LET use_state == mode.use_state
            force == mode.force
            md_files == Discover(files)
            state == IF use_state /\ md_files # <<>> THEN LoadState(stateFile)
                     ELSE EmptyState
            files_to_process ==
                IF use_state /\ ~force
                THEN GetUnprocessedFiles(files, md_files, state)
                ELSE md_files
            returns == md_files = <<>> \/ NothingToProcess(files_to_process)
        IN  /\ Resting
            /\ trk.nruns < MaxRuns
            /\ tracker' = state
            /\ run' = [phase |-> IF returns THEN "done"
                                 ELSE LoopHead(files_to_process, 0),
                       use_state |-> use_state, force |-> force,
                       batch_size |-> batch_size, md_files |-> md_files,
                       files_to_process |-> IF md_files = <<>> THEN <<>>
                                            ELSE files_to_process,
                       i |-> 0, batch |-> <<>>, pending |-> <<>>]
            /\ clock' = clock + 1
            /\ trk' = [trk EXCEPT !.op = "run", !.nruns = @ + 1,
                          !.extractions = 0, !.noteWrites = 0, !.stateWrites = 0,
                          !.stateReads = IF use_state /\ md_files # <<>> THEN 1 ELSE 0,
                          !.planned = 0, !.written = 0, !.marks = <<>>,
                          !.completed = <<>>, !.notesAtStart = notes,
                          !.notesAtCommit = notes, !.stateFileAtStart = stateFile,
                          !.abortedAt = "",
                          !.after = IF run.phase = "aborted"
                                    THEN [aborted |-> TRUE, at |-> trk.abortedAt,
                                          use_state |-> run.use_state,
                                          force |-> run.force, batch |-> run.batch,
                                          completed |-> trk.completed]
                                    ELSE NoAbort,
                          !.afterReset = trk.sinceReset, !.sinceReset = FALSE]
            /\ UNCHANGED <<notes, log, answer, obs, nbatch, nitems, lastBatch,
                           mIn, mOut, mDone, otherVars, files, stateFile>>

\* process_batch up to its write loop: the files are read, the model
\* answers, the answer is parsed and merged
ExtractBatch ==
    \E response \in DirAnswers :
        LET batch == Batch(run.files_to_process, run.i, run.batch_size)
            entities == ParseItems(response, batch)
            merged == MergeEntities(<<entities>>)
        IN  /\ run.phase = "extract"
            /\ run' = [run EXCEPT !.phase = "write", !.batch = batch,
                                  !.pending = NoteWrites(merged)]
            /\ trk' = [trk EXCEPT !.op = "extract", !.extractions = @ + 1,
                                  !.planned = Len(NoteWrites(merged)), !.written = 0,
                                  !.read = [p \in Paths |->
                                               IF \E j \in 1..Len(batch) : batch[j] = p
                                               THEN @[p] \cup {files[p].content}
                                               ELSE @[p]]]
            /\ UNCHANGED <<notes, log, answer, obs, nbatch, nitems, lastBatch,
                           mIn, mOut, mDone, otherVars, files, stateFile, tracker, clock>>

\* one call of create_or_update_note in the write loop of process_batch
WriteBatchNote ==
    /\ run.phase = "write"
    /\ run.pending # <<>>
    /\ notes' = WriteNote(notes, Head(run.pending)[1], Head(run.pending)[2])
    /\ run' = [run EXCEPT !.pending = Tail(@)]
    /\ trk' = [trk EXCEPT !.op = "write", !.noteWrites = @ + 1, !.written = @ + 1]
    /\ UNCHANGED <<log, answer, obs, nbatch, nitems, lastBatch,
                   mIn, mOut, mDone, otherVars, files, stateFile, tracker, clock>>

\* a loop that marks the files of a batch only when the batch gave entities
MarkBatch_UnlessEmpty ==
    /\ WritesComplete(run)
    /\ tracker' = IF run.use_state /\ trk.planned > 0
                  THEN MarkFiles(files, run.batch, tracker, clock)
                  ELSE tracker
    /\ run' = [run EXCEPT !.i = @ + run.batch_size, !.pending = <<>>,
                          !.phase = LoopHead(run.files_to_process,
                                             run.i + run.batch_size)]
    /\ trk' = [trk EXCEPT !.op = "mark",
                          !.marks = IF run.use_state
                                    THEN Append(@, [batch |-> run.batch,
                                                    planned |-> trk.planned,
                                                    written |-> trk.written])
                                    ELSE @,
                          !.completed = @ \o run.batch,
                          !.notesAtCommit = notes]
    /\ UNCHANGED <<notes, log, answer, obs, nbatch, nitems, lastBatch,
                   mIn, mOut, mDone, otherVars, files, stateFile, clock>>

\* process_batch returns; the files of the batch are marked; the loop
\* goes on to the next batch
MarkBatch ==
    /\ WritesComplete(run)
    /\ tracker' = IF run.use_state THEN MarkFiles(files, run.batch, tracker, clock)
                  ELSE tracker
    /\ run' = [run EXCEPT !.i = @ + run.batch_size, !.pending = <<>>,
                          !.phase = LoopHead(run.files_to_process,
                                             run.i + run.batch_size)]
    /\ trk' = [trk EXCEPT !.op = "mark",
                          !.marks = IF run.use_state
                                    THEN Append(@, [batch |-> run.batch,
                                                    planned |-> trk.planned,
                                                    written |-> trk.written])
                                    ELSE @,
                          !.completed = @ \o run.batch,
                          !.notesAtCommit = notes]
    /\ UNCHANGED <<notes, log, answer, obs, nbatch, nitems, lastBatch,
                   mIn, mOut, mDone, otherVars, files, stateFile, clock>>

\* an end of the loop that saves the state with the last-run timestamp it has
Finalize_StaleTimestamp ==
    /\ run.phase = "finalize"
    /\ stateFile' = IF run.use_state THEN SaveState(tracker) ELSE stateFile
    /\ run' = [run EXCEPT !.phase = "done"]
    /\ trk' = [trk EXCEPT !.op = "finalize",
                          !.stateWrites = IF run.use_state THEN @ + 1 ELSE @]
    /\ UNCHANGED <<notes, log, answer, obs, nbatch, nitems, lastBatch,
                   mIn, mOut, mDone, otherVars, files, tracker, clock>>

\* after the loop: the last-run timestamp is set and the state is saved
Finalize ==
    /\ run.phase = "finalize"
    /\ tracker' = IF run.use_state THEN [tracker EXCEPT !.last_run = Some(clock)]
                  ELSE tracker
    /\ stateFile' = IF run.use_state THEN SaveState(tracker') ELSE stateFile
    /\ run' = [run EXCEPT !.phase = "done"]
    /\ trk' = [trk EXCEPT !.op = "finalize",
                          !.stateWrites = IF run.use_state THEN @ + 1 ELSE @]
    /\ UNCHANGED <<notes, log, answer, obs, nbatch, nitems, lastBatch,
                   mIn, mOut, mDone, otherVars, files, clock>>

\* where the run ends early: in the extraction call, in a note write, between
\* the last note write of a batch and its marking, or before the state is saved
AbortPoint(r) ==
    IF r.phase = "write" /\ r.pending = <<>> THEN "mark" ELSE r.phase

\* a run that, as it ends early, marks the files of the batch in progress
\* and saves the state
Abort_MarksBatch ==
    /\ run.phase \in {"extract", "write"}
    /\ run.use_state
    /\ tracker' = MarkFiles(files, Batch(run.files_to_process, run.i, run.batch_size),
                            tracker, clock)
    /\ stateFile' = SaveState(tracker')
    /\ run' = [run EXCEPT !.phase = "aborted",
                          !.batch = Batch(run.files_to_process, run.i, run.batch_size)]
    /\ trk' = [trk EXCEPT !.op = "abort", !.abortedAt = AbortPoint(run)]
    /\ UNCHANGED <<notes, log, answer, obs, nbatch, nitems, lastBatch,
                   mIn, mOut, mDone, otherVars, files, clock>>

\* the run ends before it returns: the extraction call or a note write
\* raises, or the process is killed
Abort ==
    /\ run.phase \in {"extract", "write", "finalize"}
    /\ run' = [run EXCEPT !.phase = "aborted",
                          !.batch = IF run.phase = "extract"
                                    THEN Batch(run.files_to_process, run.i, run.batch_size)
                                    ELSE IF run.phase = "write" THEN @ ELSE <<>>]
    /\ trk' = [trk EXCEPT !.op = "abort", !.abortedAt = AbortPoint(run)]
    /\ UNCHANGED <<notes, log, answer, obs, nbatch, nitems, lastBatch,
                   mIn, mOut, mDone, otherVars, files, stateFile, tracker, clock>>

\* between runs, a file of the input directory is written: created,
\* changed, or rewritten with the bytes it has
WriteFile ==
    \E p \in Paths, content \in Contents :
        /\ Resting
        /\ trk.nedits < MaxEdits
        /\ files' = [files EXCEPT ![p] = RegularFile(content, clock)]
        /\ clock' = clock + 1
        /\ run' = IdleRun
        /\ trk' = [trk EXCEPT !.op = "edit", !.nedits = @ + 1]
        /\ UNCHANGED <<notes, log, answer, obs, nbatch, nitems, lastBatch,
                       mIn, mOut, mDone, otherVars, stateFile, tracker>>

\* config_module.reset_state(): the config module has no such attribute, the
\* lookup raises AttributeError and the command ends
CliReset(file) == file

\* the reset command
Reset ==
    /\ Resting
    /\ trk.nedits < MaxEdits
    /\ stateFile' = CliReset(stateFile)
    /\ run' = IdleRun
    /\ trk' = [trk EXCEPT !.op = "reset", !.nedits = @ + 1, !.sinceReset = TRUE,
                          !.beforeReset = stateFile]
    /\ UNCHANGED <<notes, log, answer, obs, nbatch, nitems, lastBatch,
                   mIn, mOut, mDone, otherVars, files, tracker, clock>>

NextDir ==
    \/ StartRun
    \/ ExtractBatch
    \/ WriteBatchNote
    \/ MarkBatch
    \/ Finalize
    \/ Abort
    \/ WriteFile
    \/ Reset

SpecDir == InitDir /\ [][NextDir]_vars

(***************************************************************************)
(* Directory runs while another program writes the input files             *)
(***************************************************************************)
\* no run has been made over the input directory: there is no state file
InitRace ==
    /\ parse = NoParse
    /\ stem = NoStem
    /\ conc = NoConc
    /\ notes = <<>>
    /\ log = <<>>
    /\ NoBatches
    /\ NoMerge
    /\ files \in [Paths -> {MissingFile, RegularFile(ContentU, 0)}]
    /\ stateFile = NoStateFile
    /\ tracker = EmptyState
    /\ clock = 1
    /\ run = IdleRun
    /\ trk = NoHistory

\* another program writes an input file after process_batch has read the
\* files of the batch (processor.py:319-323) and before the loop of
\* process_directory marks them (408-410)
ExternalWrite ==
    \E p \in Paths, content \in Contents :
        /\ run.phase = "write"
        /\ trk.nedits < MaxEdits
        /\ files' = [files EXCEPT ![p] = RegularFile(content, clock)]
        /\ clock' = clock + 1
        /\ trk' = [trk EXCEPT !.nedits = @ + 1]
        /\ UNCHANGED <<notes, log, answer, obs, nbatch, nitems, lastBatch,
                       mIn, mOut, mDone, otherVars, stateFile, tracker, run>>

NextRace ==
    \/ StartRun
    \/ ExtractBatch
    \/ WriteBatchNote
    \/ MarkBatch
    \/ Finalize
    \/ Abort
    \/ WriteFile
    \/ ExternalWrite

SpecRace == InitRace /\ [][NextRace]_vars

(***************************************************************************)
(* Two invocations with the same output directory and the same state file  *)
(***************************************************************************)
\* Each invocation is a tracked directory run over an input directory of its
\* own that holds one file; the model finds the same person in both files.
\* No step takes a lock: load_state, the read and the write of the note in
\* create_or_update_note, and save_state are separate steps.
Invocations == {1, 2}
OtherInvocation(k) == 3 - k

Invocation(entity, source) ==
    [pc |-> "start", entity |-> entity, source |-> source,
     state |-> EmptyState, existing |-> Absent,
     loadedAt |-> 0, readAt |-> 0, wroteAt |-> 0, savedAt |-> 0]

InitConc ==
    /\ conc \in { << Invocation(Entity(NameAb, "person", DescP, <<>>), SrcX),
                     Invocation(Entity(NameAb, "person", d, <<>>), SrcY) >> :
                   d \in {DescP, DescQ} }
    /\ parse = NoParse
    /\ stem = NoStem
    /\ notes \in InitialDirs
    /\ log = <<>>
    /\ NoBatches
    /\ NoMerge
    /\ files = [p \in Paths |-> RegularFile(ContentU, 0)]
    /\ stateFile = NoStateFile
    /\ tracker = EmptyState
    /\ clock = 1
    /\ run = IdleRun
    /\ trk = NoHistory

\* a note write that reads the file again when it writes
ExistingContent_Reread(k) == ReadNote(notes, NotePath(conc[k].entity))

\* existing_content, read from the note file before the note is rebuilt
ExistingContent(k) == conc[k].existing

\* state = load_state()
ConcLoad ==
    \E k \in Invocations :
        /\ conc[k].pc = "start"
        /\ conc' = [conc EXCEPT ![k].pc = "loaded",
                                ![k].state = LoadState(stateFile),
                                ![k].loadedAt = clock]
        /\ clock' = clock + 1
        /\ UNCHANGED <<notes, log, answer, obs, nbatch, nitems, lastBatch,
                       mIn, mOut, mDone, parse, stem,
                       files, stateFile, tracker, run, trk>>

\* create_or_update_note: note_path.exists() and note_path.read_text()
ConcRead ==
    \E k \in Invocations :
        /\ conc[k].pc = "loaded"
        /\ conc' = [conc EXCEPT ![k].pc = "read",
                                ![k].existing = ReadNote(notes, NotePath(conc[k].entity)),
                                ![k].readAt = clock]
        /\ clock' = clock + 1
        /\ UNCHANGED <<notes, log, answer, obs, nbatch, nitems, lastBatch,
                       mIn, mOut, mDone, parse, stem,
                       files, stateFile, tracker, run, trk>>

\* create_or_update_note: the note is rebuilt from existing_content and
\* written with note_path.write_text
ConcWrite ==
    \E k \in Invocations :
        LET p == NotePath(conc[k].entity)
            r == CreateOrUpdateResult(ExistingContent(k), conc[k].entity, conc[k].source)
        IN  /\ conc[k].pc = "read"
            /\ notes' = IF r.wrote
                         THEN [q \in DOMAIN notes \cup {p} |->
                                  IF q = p THEN r.content ELSE notes[q]]
                         ELSE notes
            /\ conc' = [conc EXCEPT ![k].pc = "written", ![k].wroteAt = clock]
            /\ clock' = clock + 1
            /\ UNCHANGED <<log, answer, obs, nbatch, nitems, lastBatch,
                           mIn, mOut, mDone, parse, stem,
                           files, stateFile, tracker, run, trk>>

\* mark_file_processed for the file of the batch, state.last_run = now,
\* save_state(state)
ConcSave ==
    \E k \in Invocations :
        LET state == [MarkFileProcessed(files, conc[k].source, conc[k].state, clock)
                         EXCEPT !.last_run = Some(clock)]
        IN  /\ conc[k].pc = "written"
            /\ stateFile' = SaveState(state)
            /\ conc' = [conc EXCEPT ![k].pc = "saved", ![k].state = state,
                                    ![k].savedAt = clock]
            /\ clock' = clock + 1
            /\ UNCHANGED <<notes, log, answer, obs, nbatch, nitems, lastBatch,
                           mIn, mOut, mDone, parse, stem,
                           files, tracker, run, trk>>

NextConc ==
    \/ ConcLoad
    \/ ConcRead
    \/ ConcWrite
    \/ ConcSave

SpecConc == InitConc /\ [][NextConc]_vars

(***************************************************************************)
(* Specification of the change tracker calls (state.py)                    *)
(***************************************************************************)
\* the State objects a caller holds: no record, a record of SrcX made of
\* either content, records of both files; with and without a last run
TrackerStates ==
    { State(pf, last_run) :
        pf \in { <<>>,
                 << <<SrcX, FileState(SrcX, Sha256(ContentU), 0)>> >>,
                 << <<SrcX, FileState(SrcX, Sha256(ContentV), 0)>> >>,
                 << <<SrcY, FileState(SrcY, Sha256(ContentU), 0)>>,
                    <<SrcX, FileState(SrcX, Sha256(ContentU), 0)>> >> },
        last_run \in {None, Some(0)} }

\* the file_paths argument of get_unprocessed_files
FileLists == {<<SrcX>>, <<SrcX, SrcY>>, <<SrcY, SrcX>>}

InitTracker ==
    /\ parse = NoParse
    /\ stem = NoStem
    /\ conc = NoConc
    /\ notes = <<>>
    /\ log = <<>>
    /\ NoBatches
    /\ NoMerge
    /\ files \in [Paths -> {MissingFile, RegularFile(ContentU, 0)}]
    /\ stateFile = NoStateFile
    /\ tracker \in TrackerStates
    /\ clock = 1
    /\ run = IdleRun
    /\ trk = NoHistory

\* mark_file_processed(file_path, state)
MarkCall ==
    \E file_path \in Paths :
        /\ trk.ncalls < MaxCalls
        /\ tracker' = MarkFileProcessed(files, file_path, tracker, clock)
        /\ clock' = clock + 1
        /\ trk' = [trk EXCEPT !.op = "mark", !.ncalls = @ + 1,
                      !.marked = IF files[file_path].kind = "file"
                                 THEN DictSet(@, file_path, files[file_path].content)
                                 ELSE @]
        /\ UNCHANGED <<notes, log, answer, obs, nbatch, nitems, lastBatch,
                       mIn, mOut, mDone, otherVars, files, stateFile, run>>

\* has_file_changed(file_path, state)
CheckCall ==
    \E file_path \in Paths :
        /\ trk.ncalls < MaxCalls
        /\ trk' = [trk EXCEPT !.op = "check", !.ncalls = @ + 1,
                      !.check = [called |-> TRUE, kind |-> files[file_path].kind,
                                 recorded |-> DictHas(tracker.processed_files, file_path),
                                 outcome |-> HasFileChangedOutcome(files, file_path, tracker)]]
        /\ UNCHANGED <<notes, log, answer, obs, nbatch, nitems, lastBatch,
                       mIn, mOut, mDone, otherVars, files, stateFile, tracker, clock, run>>

\* get_unprocessed_files(file_paths, state)
SelectCall ==
    \E file_paths \in FileLists :
        /\ trk.ncalls < MaxCalls
        /\ trk' = [trk EXCEPT !.op = "select", !.ncalls = @ + 1,
                      !.selection = [called |-> TRUE, fs |-> files,
                                     file_paths |-> file_paths, state |-> tracker,
                                     result |-> GetUnprocessedFiles(files, file_paths, tracker)]]
        /\ UNCHANGED <<notes, log, answer, obs, nbatch, nitems, lastBatch,
                       mIn, mOut, mDone, otherVars, files, stateFile, tracker, clock, run>>

\* save_state(state)
SaveCall ==
    /\ trk.ncalls < MaxCalls
    /\ stateFile' = SaveState(tracker)
    /\ trk' = [trk EXCEPT !.op = "save", !.ncalls = @ + 1,
                          !.saved = <<[state |-> tracker, marked |-> trk.marked]>>]
    /\ UNCHANGED <<notes, log, answer, obs, nbatch, nitems, lastBatch,
                   mIn, mOut, mDone, otherVars, files, tracker, clock, run>>

\* state = load_state()
LoadCall ==
    /\ trk.ncalls < MaxCalls
    /\ tracker' = LoadState(stateFile)
    /\ trk' = [trk EXCEPT !.op = "load", !.ncalls = @ + 1,
                          !.marked = IF trk.saved = <<>> THEN <<>>
                                     ELSE trk.saved[1].marked]
    /\ UNCHANGED <<notes, log, answer, obs, nbatch, nitems, lastBatch,
                   mIn, mOut, mDone, otherVars, files, stateFile, clock, run>>

\* reset_state()
ResetCall ==
    /\ trk.ncalls < MaxCalls
    /\ stateFile' = ResetState(stateFile)
    /\ trk' = [trk EXCEPT !.op = "reset_state", !.ncalls = @ + 1, !.saved = <<>>]
    /\ UNCHANGED <<notes, log, answer, obs, nbatch, nitems, lastBatch,
                   mIn, mOut, mDone, otherVars, files, tracker, clock, run>>

\* a file of the input directory is removed, or made unreadable
RemoveFile ==
    \E p \in Paths, kind \in {"missing", "unreadable"} :
        /\ Resting
        /\ trk.nedits < MaxEdits
        /\ files[p].kind = "file"
        /\ files' = [files EXCEPT ![p] = IF kind = "missing" THEN MissingFile
                                         ELSE UnreadableFile(@.content, @.mtime)]
        /\ trk' = [trk EXCEPT !.op = "remove", !.nedits = @ + 1]
        /\ UNCHANGED <<notes, log, answer, obs, nbatch, nitems, lastBatch,
                       mIn, mOut, mDone, otherVars, stateFile, tracker, clock, run>>

NextTracker ==
    \/ MarkCall
    \/ CheckCall
    \/ SelectCall
    \/ SaveCall
    \/ LoadCall
    \/ ResetCall
    \/ WriteFile
    \/ RemoveFile

SpecTracker == InitTracker /\ [][NextTracker]_vars

(***************************************************************************)
(* Reading a note back, as the claims about notes need it                  *)
(***************************************************************************)
Range(seq) == {seq[i] : i \in 1..Len(seq)}

NoDuplicates(seq) == \A i, j \in 1..Len(seq) : seq[i] = seq[j] => i = j

\* the identifiers listed in the sources section: the "- <source>" lines that
\* follow the "## Sources" heading, in file order
SectionSources(content) ==
    LET lines == Split(content, <<NL>>)
        heads == {i \in 1..Len(lines) : Lower(Strip(lines[i])) = SourcesHeadingLower}
        IsItem(line) == StartsWith(Strip(line), ListItem)
        after == IF heads = {} THEN <<>> ELSE SubSeq(lines, SetMin(heads) + 1, Len(lines))
        items == SelectSeq(after, IsItem)
    IN  [i \in 1..Len(items) |-> SubSeq(Strip(items[i]), 3, Len(Strip(items[i])))]

\* does the note have a "sources:" line in its metadata block
HasMetadata(content) == ScanFrontmatter(Split(content, <<NL>>), 1, FALSE, 0) >= 1

\* one entry of a flow list: a double-quoted scalar stands for its inside, a
\* plain scalar for itself
Unquote(s) ==
    IF Len(s) >= 2 /\ s[1] = QUOTE /\ s[Len(s)] = QUOTE THEN SubSeq(s, 2, Len(s) - 1) ELSE s

\* the identifiers of the metadata block's "sources: [...]" list
MetaSources(content) ==
    LET lines == Split(content, <<NL>>)
        line == lines[ScanFrontmatter(lines, 1, FALSE, 0)]
        opens == {i \in 1..Len(line) : line[i] = "["}
        closes == {i \in 1..Len(line) : line[i] = "]"}
        inner == SubSeq(line, SetMin(opens) + 1, SetMax(closes) - 1)
        parts == Split(inner, <<",">>)
    IN  IF opens = {} \/ closes = {} THEN {}
        ELSE {Unquote(Strip(parts[i])) : i \in 1..Len(parts)} \ {<<>>}

LastCall == log[Len(log)]

(***************************************************************************)
(* Claims about create_or_update_note (specification Spec)                 *)
(***************************************************************************)
\* C1: applying create_or_update_note a second time with the identical entity
\* and source leaves the note byte-identical to what the first application
\* left: after any call, repeating it changes nothing in the output directory.
C1_ReapplyIsNoOp ==
    log # <<>> => WriteNote(notes, LastCall.entity, LastCall.source) = notes

\* C2: after create_or_update_note(entity, source) returns, the entity's note
\* has a sources-section line for that source.
C2_SourceListedAfterCall ==
    log # <<>> =>
        LastCall.source \in Range(SectionSources(notes[NotePath(LastCall.entity)]))

C4_MetadataMatchesSection ==
    \A p \in DOMAIN notes :
        HasMetadata(notes[p]) => MetaSources(notes[p]) = Range(SectionSources(notes[p]))

(***************************************************************************)
(* Claims about the file and batch operations (specification SpecBatch)    *)
(***************************************************************************)
\* the merge key as the design states it: the name lowercased, trimmed, with
\* '_' and '-' replaced by a space, together with the type
ClaimKey(name, type) ==
    LET t == Strip(Lower(name))
    IN  <<[i \in 1..Len(t) |-> IF t[i] \in {"_", "-"} THEN " " ELSE t[i]], type>>

\* C5: two observations with equal merge keys end up in the same single note
\* file, whether they arrive in one batch or in different batches or runs.
C5_OneNotePerMergeKey ==
    \A o1, o2 \in {o \in obs : o.via = "batch"} :
        ClaimKey(o1.name, o1.entity_type) = ClaimKey(o2.name, o2.entity_type)
            => o1.path = o2.path

(***************************************************************************)
(* Claims about merge_entities (specification SpecMerge)                   *)
(***************************************************************************)
\* the input records in iteration order
MergeInput == Concat(mIn)

KeyOf(record) == ClaimKey(record.name, record.entity_type)

\* the input records that collide on the key of record r, in iteration order
Colliding(r) ==
    LET SameKey(e) == KeyOf(e) = KeyOf(r)
    IN  SelectSeq(MergeInput, SameKey)

\* is out the sequence all without its repetitions, in first-seen order
IsFirstSeenOrder(out, all) ==
    LET first(x) == SetMin({i \in 1..Len(all) : all[i] = x})
    IN  /\ Range(out) = Range(all)
        /\ \A a, b \in 1..Len(out) : a < b => first(out[a]) < first(out[b])

\* the first of the descriptions of the records rs that has the maximal length
FirstLongest(rs) ==
    LET longest == {i \in 1..Len(rs) :
                       \A j \in 1..Len(rs) : Len(rs[j].description) <= Len(rs[i].description)}
    IN  rs[SetMin(longest)].description

\* C6: every source of every input record appears in the source list of the
\* resulting record that has the same merge key.
C6_NoSourceDropped ==
    mDone =>
        \A i \in 1..Len(MergeInput) :
            \A src \in Range(MergeInput[i].sources) :
                \E j \in 1..Len(mOut) :
                    /\ KeyOf(mOut[j]) = KeyOf(MergeInput[i])
                    /\ src \in Range(mOut[j].sources)

\* C6 witness: a record collided with an earlier one and brought a source the
\* earlier one did not have.
C6_Witness ==
    /\ mDone
    /\ \E i, k \in 1..Len(MergeInput) :
           /\ i < k
           /\ KeyOf(MergeInput[i]) = KeyOf(MergeInput[k])
           /\ Range(MergeInput[k].sources) \ Range(MergeInput[i].sources) # {}

\* C7: merge_entities returns exactly one record per distinct merge key of the
\* input: equal keys are combined, different names or types stay separate.
C7_OneRecordPerKey ==
    mDone =>
        /\ \A j1, j2 \in 1..Len(mOut) : KeyOf(mOut[j1]) = KeyOf(mOut[j2]) => j1 = j2
        /\ {KeyOf(mOut[j]) : j \in 1..Len(mOut)}
               = {KeyOf(MergeInput[i]) : i \in 1..Len(MergeInput)}

\* C7 witness: differently written names of one key were combined, while a
\* record of another type and one of another normalized name stayed separate.
C7_Witness ==
    /\ mDone
    /\ Len(mOut) >= 3
    /\ \E i, k \in 1..Len(MergeInput) :
           /\ MergeInput[i].name # MergeInput[k].name
           /\ KeyOf(MergeInput[i]) = KeyOf(MergeInput[k])

\* a record as C8 compares it: name, type, description and set of sources
AsGiven(r) ==
    [name |-> r.name, entity_type |-> r.entity_type, description |-> r.description,
     sources |-> Range(r.sources)]

\* C8 as stated: merge_entities([A, B]) and merge_entities([B, A]) yield the
\* same set of records, comparing name, type, description and set of sources.
C8_MergeCommutes ==
    (mDone /\ Len(mIn) = 2) =>
        LET swapped == MergeEntities(<<mIn[2], mIn[1]>>)
        IN  {AsGiven(mOut[j]) : j \in 1..Len(mOut)}
                = {AsGiven(swapped[j]) : j \in 1..Len(swapped)}

\* is the longest description among the records colliding with r unique
LongestIsUnique(r) ==
    LET rs == Colliding(r)
        longest == {rs[i].description : i \in {k \in 1..Len(rs) :
                       \A j \in 1..Len(rs) : Len(rs[j].description) <= Len(rs[k].description)}}
    IN  Cardinality(longest) = 1

\* a record up to what the first-seen rules leave open: its merge key, its
\* set of sources, the length of its description, and the description itself
\* when no two colliding records tie on the maximal length
UpToFirstSeen(r) ==
    [key |-> KeyOf(r), sources |-> Range(r.sources), length |-> Len(r.description),
     description |-> IF LongestIsUnique(r) THEN r.description ELSE <<>>]

\* C8 amended: merge_entities([A, B]) and merge_entities([B, A]) yield the same
\* set of records comparing merge key, set of sources and length of the
\* description, and the same description unless colliding records tie on the
\* maximal length; the display name is the first seen of each order.
C8_MergeCommutesUpToFirstSeen ==
    (mDone /\ Len(mIn) = 2) =>
        LET swapped == MergeEntities(<<mIn[2], mIn[1]>>)
        IN  /\ {UpToFirstSeen(mOut[j]) : j \in 1..Len(mOut)}
                   = {UpToFirstSeen(swapped[j]) : j \in 1..Len(swapped)}
            /\ Len(mOut) = Len(swapped)

\* C8 witness: two non-empty lists whose records collide across the lists,
\* with different sources and descriptions of different lengths.
C8_Witness ==
    /\ mDone
    /\ Len(mIn) = 2
    /\ \E i \in 1..Len(mIn[1]), k \in 1..Len(mIn[2]) :
           /\ KeyOf(mIn[1][i]) = KeyOf(mIn[2][k])
           /\ mIn[1][i].sources # mIn[2][k].sources
           /\ Len(mIn[1][i].description) < Len(mIn[2][k].description)

\* C9: the description of each merged record is the first description, in
\* input order, among the colliding records that has the maximal length.
C9_FirstLongestDescription ==
    mDone => \A j \in 1..Len(mOut) : mOut[j].description = FirstLongest(Colliding(mOut[j]))

\* C9 witness: two colliding records tie with different descriptions, and an
\* empty description follows a non-empty one.
C9_Witness ==
    /\ mDone
    /\ \E i, k, l \in 1..Len(MergeInput) :
           /\ i < k /\ k < l
           /\ KeyOf(MergeInput[i]) = KeyOf(MergeInput[k])
           /\ KeyOf(MergeInput[i]) = KeyOf(MergeInput[l])
           /\ MergeInput[i].description # MergeInput[k].description
           /\ Len(MergeInput[i].description) = Len(MergeInput[k].description)
           /\ MergeInput[i].description # <<>>
           /\ MergeInput[l].description = <<>>
           /\ \E j \in 1..Len(mOut) : mOut[j].description = MergeInput[i].description

\* C10: each resulting record's source list holds no identifier twice and
\* lists the sources in the order in which they were first seen across the
\* colliding input records.
C10_SourcesFirstSeenOrder ==
    mDone =>
        \A j \in 1..Len(mOut) :
            LET rs == Colliding(mOut[j])
            IN  /\ NoDuplicates(mOut[j].sources)
                /\ IsFirstSeenOrder(mOut[j].sources,
                                    Concat([i \in 1..Len(rs) |-> rs[i].sources]))

\* C10 witness: a colliding record repeated a source already listed and added
\* a new one after it.
C10_Witness ==
    /\ mDone
    /\ \E j \in 1..Len(mOut) :
           /\ Len(mOut[j].sources) >= 3
           /\ \E i, k \in 1..Len(Colliding(mOut[j])) :
                  /\ i < k
                  /\ Range(Colliding(mOut[j])[i].sources)
                         \cap Range(Colliding(mOut[j])[k].sources) # {}

(***************************************************************************)
(* Claims about the directory run                                          *)
(***************************************************************************)
\* the run in progress follows a run that ended early while a batch was
\* being extracted or written, the input files being the same
AfterAbortedBatch ==
    /\ run.phase # "idle"
    /\ trk.after.aborted
    /\ trk.after.at \in {"extract", "write", "mark"}

\* the run has ended early while a batch was being processed
AbortedInBatch ==
    run.phase = "aborted" /\ trk.abortedAt \in {"extract", "write", "mark"}

\* the run has ended early because the extraction call or a note write failed
FatalInBatch == run.phase = "aborted" /\ trk.abortedAt \in {"extract", "write"}

\* the Run State as the next run will load it
Persisted == LoadState(stateFile)

\* C11: when a tracked directory run has ended early while processing batch k,
\* the next tracked run over the unchanged inputs selects none of the files of
\* batches 1..k-1.
C11_CommittedBatchesNotReselected ==
    (AfterAbortedBatch /\ trk.after.use_state /\ run.use_state /\ ~run.force) =>
        \A j \in 1..Len(trk.after.completed) :
            trk.after.completed[j] \notin Range(run.files_to_process)

\* C12 as stated: when a directory run has ended early while processing a
\* batch, no file of that batch is recorded as processed in the persisted Run
\* State, and the next tracked run selects every file of that batch.
C12_AbortedBatchSelectedAgain ==
    /\ AbortedInBatch =>
           \A j \in 1..Len(run.batch) : HasFileChanged(files, run.batch[j], Persisted)
    /\ (AfterAbortedBatch /\ run.use_state) =>
           \A j \in 1..Len(trk.after.batch) :
               trk.after.batch[j] \in Range(run.files_to_process)

\* C12 amended: when a tracked, non-forced directory run has ended early while
\* processing a batch, no file of that batch is recorded as processed in the
\* persisted Run State, and the next tracked run selects every file of that
\* batch.
C12_SelectedBatchSelectedAgain ==
    /\ (AbortedInBatch /\ run.use_state /\ ~run.force) =>
           \A j \in 1..Len(run.batch) : HasFileChanged(files, run.batch[j], Persisted)
    /\ (AfterAbortedBatch /\ trk.after.use_state /\ ~trk.after.force /\ run.use_state) =>
           \A j \in 1..Len(trk.after.batch) :
               trk.after.batch[j] \in Range(run.files_to_process)

\* C12 witness: a tracked, non-forced run ended early during the note writes
\* of a batch of two files, and a tracked, non-forced run follows.
C12_Witness ==
    /\ AfterAbortedBatch
    /\ trk.after.at = "write"
    /\ trk.after.use_state /\ ~trk.after.force
    /\ Len(trk.after.batch) = 2
    /\ run.use_state /\ ~run.force
    /\ notes # <<>>

\* C13: the files of a batch are marked only when every note write of that
\* batch has been made: each marking found all planned writes done, and while
\* a batch is being extracted or written the State in memory holds for its
\* files what was loaded at the start of the run.
C13_MarkAfterWrites ==
    /\ \A j \in 1..Len(trk.marks) : trk.marks[j].written = trk.marks[j].planned
    /\ (run.phase \in {"extract", "write"} /\ run.use_state) =>
           LET inFlight == Batch(run.files_to_process, run.i, run.batch_size)
               loaded == LoadState(trk.stateFileAtStart).processed_files
           IN  \A j \in 1..Len(inFlight) :
                   /\ DictHas(tracker.processed_files, inFlight[j])
                          = DictHas(loaded, inFlight[j])
                   /\ DictHas(loaded, inFlight[j]) =>
                          DictGet(tracker.processed_files, inFlight[j])
                              = DictGet(loaded, inFlight[j])
                   /\ \A m \in 1..Len(trk.marks) :
                          inFlight[j] \notin Range(trk.marks[m].batch)

\* C13 witness: a batch of two note writes was marked, and the next batch is
\* being written.
C13_Witness ==
    /\ run.phase = "write"
    /\ run.use_state
    /\ Len(trk.marks) = 1
    /\ trk.marks[1].planned = 2
    /\ trk.written = 1

\* C14: when an extraction failure or a note write failure has ended a
\* directory run during batch k, the notes on disk are what they were when
\* batch k-1 completed, and the marks of batches 1..k-1 are in the persisted
\* Run State.
C14_AbortLeavesLastCommit ==
    FatalInBatch =>
        /\ notes = trk.notesAtCommit
        /\ run.use_state =>
               \A j \in 1..Len(trk.completed) :
                   /\ DictHas(Persisted.processed_files, trk.completed[j])
                   /\ ~HasFileChanged(files, trk.completed[j], Persisted)

\* C18: after the reset command the Run State holds no Change Record, and the
\* next tracked, non-forced run selects every discovered file.
C18_ResetClearsRecords ==
    /\ trk.op = "reset" =>
           /\ stateFile = ResetState(trk.beforeReset)
           /\ Persisted.processed_files = <<>>
    /\ (run.phase # "idle" /\ trk.afterReset /\ run.use_state /\ ~run.force) =>
           run.files_to_process = run.md_files

\* C20: when no input file is discovered or no file is selected, the run makes
\* no extraction call, writes no note and does not write the Run State file.
C20_EmptySelectionIsNoOp ==
    (run.phase = "done" /\ run.files_to_process = <<>>) =>
        /\ trk.extractions = 0
        /\ trk.noteWrites = 0
        /\ notes = trk.notesAtStart
        /\ trk.stateWrites = 0
        /\ stateFile = trk.stateFileAtStart

\* C20 witness: a tracked run discovered files, all of them recorded as
\* processed with their present content, and returned.
C20_Witness ==
    /\ run.phase = "done"
    /\ run.use_state /\ ~run.force
    /\ run.md_files # <<>>
    /\ run.files_to_process = <<>>
    /\ stateFile # NoStateFile

(***************************************************************************)
(* Claims about the change tracker                                         *)
(***************************************************************************)
\* the claim's selection: the file has no Change Record, or its present
\* fingerprint (none, when the file cannot be read) is not the stored one
ClaimUnprocessed(fs, f, state) ==
    \/ \A i \in 1..Len(state.processed_files) : state.processed_files[i][1] # f
    \/ \E i \in 1..Len(state.processed_files) :
           /\ state.processed_files[i][1] = f
           /\ \/ fs[f].kind # "file"
              \/ Sha256(fs[f].content) # state.processed_files[i][2].hash

\* C15: get_unprocessed_files returns exactly the files without a Change
\* Record or with a fingerprint other than the stored one, in input order.
C15_SelectsChangedInOrder ==
    trk.selection.called =>
        LET s == trk.selection
        IN  s.result = SelectSeq(s.file_paths,
                                 LAMBDA f : ClaimUnprocessed(s.fs, f, s.state))

\* C15 witness: of two files given, the first was recorded with its present
\* content and the second was not; the second alone was returned.
C15_Witness ==
    /\ trk.selection.called
    /\ Len(trk.selection.file_paths) = 2
    /\ trk.selection.result = <<trk.selection.file_paths[2]>>

\* C16: once a file is marked, has_file_changed is false while the file holds
\* the bytes it held when marked, whatever its modification time, and true
\* when it holds other bytes.
C16_ChangedIffContentDiffers ==
    \A i \in 1..Len(trk.marked) :
        LET p == trk.marked[i][1]
        IN  files[p].kind = "file" =>
                HasFileChanged(files, p, tracker) = (files[p].content # trk.marked[i][2])

\* C16 witness: a marked file was rewritten with the bytes it had, at a later
\* modification time.
C16_Witness ==
    \E i \in 1..Len(trk.marked) :
        LET p == trk.marked[i][1]
        IN  /\ files[p].kind = "file"
            /\ files[p].content = trk.marked[i][2]
            /\ files[p].mtime > DictGet(tracker.processed_files, p).last_processed

\* C17: for a file with a stored Change Record that is gone or cannot be
\* read, has_file_changed returns true and raises nothing.
C17_FailOpen ==
    (trk.check.called /\ trk.check.recorded
        /\ trk.check.kind \in {"missing", "unreadable"}) =>
        trk.check.outcome = "True"

\* C17 witness: has_file_changed was called for a recorded file that cannot be
\* opened.
C17_Witness ==
    /\ trk.check.called
    /\ trk.check.recorded
    /\ trk.check.kind = "unreadable"

\* equality of State objects: the same records under the same keys, the same
\* last run
StateEq(a, b) ==
    /\ DictItems(a.processed_files) = DictItems(b.processed_files)
    /\ a.last_run = b.last_run

\* C19: load_state() after save_state(s) returns a State equal to s.
C19_SaveLoadRoundTrip ==
    (trk.op = "load" /\ trk.saved # <<>>) => StateEq(tracker, trk.saved[1].state)

\* C19 witness: a State of two Change Records and a last run was saved and
\* loaded.
C19_Witness ==
    /\ trk.op = "load"
    /\ trk.saved # <<>>
    /\ Len(tracker.processed_files) = 2
    /\ tracker.last_run # None

\* the items of the response that the parser's loop iterates over
ClaimItems(response) ==
    IF response.kind = "json" \/ response.brackets = "array"
    THEN response.value.items
    ELSE <<>>

\* the spelling of each known type tag
TagWord == [person |-> PersonTag, organization |-> OrganizationTag, topic |-> TopicTag]

\* an item with a known type (in any letter case) and a name that is not
\* empty or whitespace-only
ClaimKept(item) ==
    /\ item.json = "object"
    /\ IsStr(item.type)
    /\ \E t \in EntityTypes : Lower(item.type[2]) = TagWord[t]
    /\ IsStr(item.name)
    /\ \E i \in 1..Len(item.name[2]) : item.name[2][i] \notin Whitespace

\* name is raw without its surrounding whitespace
ClaimTrimmed(raw, name) ==
    /\ name # <<>>
    /\ name[1] \notin Whitespace
    /\ name[Len(name)] \notin Whitespace
    /\ \E i \in 1..Len(raw) :
          /\ i + Len(name) - 1 <= Len(raw)
          /\ SubSeq(raw, i, i + Len(name) - 1) = name
          /\ \A k \in 1..Len(raw) :
                (k < i \/ k > i + Len(name) - 1) => raw[k] \in Whitespace

\* C21: parse_entities_response never raises, whatever the response text.
C21_NeverRaises ==
    parse.done => ~parse.raised

\* C22: the records returned by parse_entities_response are, in order, the
\* items with a known type and a non-blank name; each has its type in lower
\* case, its name trimmed, and the empty description when the item has none.
C22_RecordsWellFormed ==
    (parse.done /\ ~parse.raised) =>
        LET kept == SelectSeq(ClaimItems(parse.response), ClaimKept)
        IN  /\ Len(parse.entities) = Len(kept)
            /\ \A i \in 1..Len(kept) :
                  LET e == parse.entities[i]
                  IN  /\ e.entity_type \in EntityTypes
                      /\ TagWord[e.entity_type] = Lower(kept[i].type[2])
                      /\ ClaimTrimmed(kept[i].name[2], e.name)
                      /\ e.description =
                            (IF kept[i].description = JsonMissing THEN <<>>
                             ELSE kept[i].description[2])

\* C22 witness: of two items the one with an unknown type was dropped and the
\* other, with a padded name and no description, was returned.
C22_Witness ==
    /\ parse.done
    /\ ~parse.raised
    /\ Len(ClaimItems(parse.response)) = 2
    /\ \E i \in 1..2 : /\ ClaimItems(parse.response)[i].type = JsonStr(PlaceTag)
                       /\ ClaimItems(parse.response)[3 - i].name = JsonStr(NamePadded)
    /\ Len(parse.entities) = 1
    /\ parse.entities[1].name = Nameab
    /\ parse.entities[1].description = <<>>

\* the entity type whose notes a directory holds
DirType(dir) == CHOOSE type \in EntityTypes : NoteDir(type) = dir

\* enabled by a configuration: the per-type setting where there is one,
\* membership in the type list otherwise
ClaimEnabled(type, config) ==
    LET explicit == {i \in 1..Len(config.entity_type_config) :
                        config.entity_type_config[i][1] = type}
    IN  IF explicit # {}
        THEN \A i \in explicit : config.entity_type_config[i][2].enabled
        ELSE type \in {config.entity_types[i] : i \in 1..Len(config.entity_types)}

\* the notes that a step created or modified
Touched(before, after) ==
    {p \in DOMAIN after : p \notin DOMAIN before \/ after[p] # before[p]}

\* C23: a call of process_file or process_batch with a configuration creates
\* or modifies notes only of entity types that the configuration enables,
\* a per-type 'enabled' setting taking precedence over the type list.
C23_OnlyEnabledTypesWritten ==
    [][lastBatch'.config # None =>
          \A p \in Touched(notes, notes') :
              ClaimEnabled(DirType(p.dir), lastBatch'.config[1])]_vars

\* C23 witness: under per-type settings that disable persons (listed) and
\* enable topics (not listed), a person and a topic were extracted and only
\* the topic has a note.
C23_Witness ==
    /\ lastBatch.config = Some(PerTypeConfig)
    /\ \E i \in 1..Len(lastBatch.extracted) : lastBatch.extracted[i].entity_type = "person"
    /\ \E i \in 1..Len(lastBatch.extracted) : lastBatch.extracted[i].entity_type = "topic"
    /\ \E p \in DOMAIN notes : p.dir = "Topics"
    /\ \A p \in DOMAIN notes : p.dir # "People"

\* the existing note already covers a call: it contains the source id, and
\* the description is empty or is in the note verbatim
Covered(call) ==
    /\ call.before # Absent
    /\ Contains(call.before, call.source)
    /\ call.entity.description = <<>> \/ Contains(call.before, call.entity.description)

\* C24: a call of create_or_update_note that the existing note already covers
\* does not write the note file, and the note keeps its content.
C24_CoveredCallWritesNothing ==
    /\ \A i \in 1..Len(log) : Covered(log[i]) => ~log[i].wrote
    /\ (log # <<>> /\ Covered(LastCall)) =>
           notes[NotePath(LastCall.entity)] = LastCall.before

\* C24 witness: the last call named a source and a non-empty description that
\* an earlier call had put into the note.
C24_Witness ==
    /\ Len(log) >= 2
    /\ Covered(LastCall)
    /\ LastCall.entity.description # <<>>
    /\ \E i \in 1..(Len(log) - 1) : /\ log[i].entity = LastCall.entity
                                    /\ log[i].source = LastCall.source

\* the lines of a note that are not blank
NonBlankLines(content) ==
    SelectSeq(Split(content, <<NL>>), LAMBDA line : Strip(line) # <<>>)

\* C25: a note created for an entity without a note has a metadata block
\* whose sources list is exactly [source], then the heading with the entity's
\* name, then the description if it is not empty, then a sources section of
\* exactly one line, which references source.
C25_CreatedNoteLayout ==
    (log # <<>> /\ LastCall.before = Absent) =>
        LET content == notes[NotePath(LastCall.entity)]
            lines == NonBlankLines(content)
            description == LastCall.entity.description
        IN  /\ Len(lines) >= 3
            /\ lines[1] = FrontmatterMarker
            /\ StartsWith(lines[2], SourcesKey)
            /\ lines[3] = FrontmatterMarker
            /\ HasMetadata(content)
            /\ MetaSources(content) = {LastCall.source}
            /\ SubSeq(lines, 4, Len(lines)) =
                  << <<"#", " ">> \o LastCall.entity.name >>
                  \o (IF description # <<>> THEN <<description>> ELSE <<>>)
                  \o <<SourcesHeading, ListItem \o LastCall.source>>
            /\ SectionSources(content) = <<LastCall.source>>

\* C25 witness: a note was created for an entity with an empty description.
C25_Witness ==
    /\ log # <<>>
    /\ LastCall.before = Absent
    /\ LastCall.entity.description = <<>>
    /\ LastCall.source = SrcZX

\* the default directory of each entity type
ClaimDir == [person |-> "People", organization |-> "Organizations", topic |-> "Topics"]

\* C26: every note that process_file or process_batch creates or modifies
\* lies in the directory of the type of an entity written by that call, and
\* every written entity has its note in the directory of its own type.
C26_NotesUnderTypeDirectory ==
    [][LET written == lastBatch'.written
       IN  /\ \A p \in Touched(notes, notes') :
                 \E i \in 1..Len(written) :
                     /\ written[i].sources # <<>>
                     /\ p.dir = ClaimDir[written[i].entity_type]
                     /\ p.file = NotePath(written[i]).file
           /\ lastBatch' # lastBatch =>
                 \A i \in 1..Len(written) :
                     written[i].sources # <<>> =>
                         \E p \in DOMAIN notes' :
                             /\ p.dir = ClaimDir[written[i].entity_type]
                             /\ p.file = NotePath(written[i]).file]_vars

\* C26 witness: one call wrote a person and a topic of the same name, and
\* their notes lie in People and in Topics.
C26_Witness ==
    /\ nbatch = 1
    /\ \E i, j \in 1..Len(lastBatch.written) :
          /\ lastBatch.written[i].entity_type = "person"
          /\ lastBatch.written[j].entity_type = "topic"
          /\ lastBatch.written[i].name = lastBatch.written[j].name
          /\ lastBatch.written[i].sources # <<>>
          /\ lastBatch.written[j].sources # <<>>
    /\ {p.dir : p \in DOMAIN notes} = {"People", "Topics"}
    /\ Cardinality(DOMAIN notes) = 2

\* a call that reached update_note_with_source: the note exists and does not
\* contain the source id
Updating(call) == call.before # Absent /\ ~Contains(call.before, call.source)

\* the index of the metadata 'sources:' line of a note, 0 when it has none
MetaLine(lines) ==
    LET marks == {i \in 1..Len(lines) : Strip(lines[i]) = FrontmatterMarker}
        close == IF Cardinality(marks) >= 2 THEN SetMin(marks \ {SetMin(marks)})
                 ELSE Len(lines) + 1
        keys == {i \in 1..Len(lines) : /\ marks # {}
                                       /\ SetMin(marks) < i
                                       /\ i < close
                                       /\ StartsWith(Strip(lines[i]), SourcesKey)}
    IN  IF keys = {} THEN 0 ELSE SetMax(keys)

RECURSIVE Embeds(_, _, _, _, _)
\* the lines old[i..] occur in new[j..] unchanged and in the same order, the
\* line of index free being allowed to change
Embeds(old, new, i, j, free) ==
    IF i > Len(old) THEN TRUE
    ELSE IF j > Len(new) THEN FALSE
    ELSE IF i = free \/ old[i] = new[j]
         THEN Embeds(old, new, i + 1, j + 1, free)
         ELSE Embeds(old, new, i, j + 1, free)

\* C27: when update_note_with_source adds a source to a note, every line of
\* the note except the metadata 'sources:' line is in the new note, unchanged
\* and in the same relative order.
C27_ExistingLinesPreserved ==
    (log # <<>> /\ Updating(LastCall)) =>
        LET old == Split(LastCall.before, <<NL>>)
            new == Split(notes[NotePath(LastCall.entity)], <<NL>>)
        IN  Embeds(old, new, 1, 1, MetaLine(old))

\* C27 witness: a source was added to a note that had a description and a
\* sources section with a source line.
C27_Witness ==
    /\ log # <<>>
    /\ Updating(LastCall)
    /\ SectionSources(LastCall.before) # <<>>
    /\ Contains(LastCall.before, DescP)
    /\ Len(SectionSources(notes[NotePath(LastCall.entity)])) >= 2

\* the note has a sources section
HasSection(content) ==
    \E i \in 1..Len(Split(content, <<NL>>)) :
        Lower(Strip(Split(content, <<NL>>)[i])) = SourcesHeadingLower

\* C28: a source added to a note with a sources section is listed after the
\* section's existing sources; added to a note without one, it is the only
\* line of a new section at the end of the note.
C28_NewSourceListedLast ==
    (log # <<>> /\ Updating(LastCall)) =>
        LET before == LastCall.before
            after == notes[NotePath(LastCall.entity)]
            new == Split(after, <<NL>>)
        IN  IF HasSection(before)
            THEN SectionSources(after) = Append(SectionSources(before), LastCall.source)
            ELSE /\ Len(new) >= 4
                 /\ SubSeq(new, Len(new) - 3, Len(new)) =
                       <<<<>>, SourcesHeading, <<>>, ListItem \o LastCall.source>>

\* C29: no step deletes a note, and no step removes a source from the sources
\* section of a note.
C29_NotesOnlyGrow ==
    [][\A p \in DOMAIN notes :
          /\ p \in DOMAIN notes'
          /\ Range(SectionSources(notes[p])) \subseteq Range(SectionSources(notes'[p]))]_vars

\* C29 witness: after three calls for one note, two of which added a source,
\* the note lists both sources.
C29_Witness ==
    /\ Len(log) = 3
    /\ \A i \in 1..3 : NotePath(log[i].entity) = NotePath(LastCall.entity)
    /\ Updating(LastCall)
    /\ log[1].source # LastCall.source
    /\ {log[1].source, LastCall.source}
          \subseteq Range(SectionSources(notes[NotePath(LastCall.entity)]))

\* the sources that load_entities_from_directory reads from a note: every
\* line that, stripped, starts with "- ", without those two characters
LoadSources(content) ==
    LET lines == Split(content, <<NL>>)
        items == SelectSeq(lines, LAMBDA line : StartsWith(Strip(line), ListItem))
    IN  [i \in 1..Len(items) |-> SubSeq(Strip(items[i]), 3, Len(Strip(items[i])))]

\* the source ids that the calls wrote into the note at path p: those of the
\* calls that created the note or added a source to it
WrittenSources(p) ==
    {log[i].source : i \in {k \in 1..Len(log) :
                               /\ NotePath(log[k].entity) = p
                               /\ (log[k].before = Absent \/ Updating(log[k]))}}

\* the note at path p was produced by the calls
ProducedByCalls(p) ==
    \E i \in 1..Len(log) : NotePath(log[i].entity) = p /\ log[i].before = Absent

\* C30: the sources that load_entities_from_directory reads from a note that
\* create_or_update_note calls produced are, as a set, the source ids that
\* the calls wrote into it.
C30_SourcesRoundTrip ==
    \A p \in DOMAIN notes :
        ProducedByCalls(p) => Range(LoadSources(notes[p])) = WrittenSources(p)

\* the entity type that load_entities_from_directory gives the notes of a
\* directory: the directory names it iterates over are capitalised, the names
\* it compares with are not
LoadType(dir) ==
    IF dir = "people" THEN "person"
    ELSE IF dir = "organizations" THEN "organization"
    ELSE "topic"

\* C31: a note that the core wrote for an entity of type T is loaded by
\* load_entities_from_directory with type T.
C31_TypeRoundTrip ==
    \A i \in 1..Len(log) :
        LoadType(NotePath(log[i].entity).dir) = log[i].entity.entity_type

\* the characters that a filename stem must not contain
ClaimForbidden == {"/", "\\", ":", "*", "?", "\"", "|", "<", ">"}

\* C32: the filename stem derived from a display name contains none of the
\* characters / \ : * ? " | < >, neither starts nor ends with a dot or a
\* space, and is not empty: a name of dots and spaces only gives 'unnamed'.
C32_StemIsSafe ==
    stem.done =>
        /\ stem.filename # <<>>
        /\ \A i \in 1..Len(stem.filename) : stem.filename[i] \notin ClaimForbidden
        /\ stem.filename[1] \notin {".", " "}
        /\ stem.filename[Len(stem.filename)] \notin {".", " "}
        /\ (\A i \in 1..Len(stem.name) : stem.name[i] \in {".", " "})
              => stem.filename = Unnamed

\* C32 witness: a stem was derived from a name of a space, a forbidden
\* character and a dot.
C32_Witness ==
    /\ stem.done
    /\ stem.name = <<" ", "?", ".">>
    /\ stem.filename = <<"-">>

(***************************************************************************)
(* Claims about batching and the Run State of a directory run              *)
(***************************************************************************)
\* ceil(n / size)
CeilDiv(n, size) == (n + size - 1) \div size

\* the slices that the loop "for i in range(0, len(list), size)" takes
Chunks(list, size) ==
    [k \in 1..CeilDiv(Len(list), size) |-> Batch(list, (k - 1) * size, size)]

\* the slices are contiguous chunks of exactly size elements, the last one
\* possibly shorter, that make up the list in its order
ChunksPartition(list, size) ==
    LET chunks == Chunks(list, size)
    IN  /\ Concat(chunks) = list
        /\ \A k \in 1..Len(chunks) :
              /\ chunks[k] # <<>>
              /\ k < Len(chunks) => Len(chunks[k]) = size
              /\ Len(chunks[k]) <= size

\* C33: the batches of a directory run are the contiguous chunks of
\* batch_size files of the selected list, in its order; a batch starts only
\* when the writes and marks of the batches before it are finished; a run
\* that reaches its end has made ceil(n / batch_size) extraction calls and
\* processed every selected file exactly once.
C33_BatchesPartitionSelection ==
    LET n == Len(run.files_to_process)
        size == run.batch_size
        k == trk.extractions
        Upto(j) == SubSeq(run.files_to_process, 1, IF j < n THEN j ELSE n)
    IN  /\ run.phase = "extract" =>
              /\ k * size < n
              /\ trk.completed = Upto(k * size)
              /\ run.use_state => Len(trk.marks) = k
              /\ trk.written = trk.planned
        /\ run.phase = "write" =>
              /\ k >= 1
              /\ run.batch = Chunks(run.files_to_process, size)[k]
              /\ trk.completed = Upto((k - 1) * size)
              /\ run.use_state => Len(trk.marks) = k - 1
        /\ run.phase = "finalize" =>
              \A m \in 0..MaxChunked, s \in 1..MaxBatchSize :
                  ChunksPartition([j \in 1..m |-> j], s)
        /\ run.phase \in {"finalize", "done"} =>
              /\ k = CeilDiv(n, size)
              /\ trk.completed = run.files_to_process
              /\ NoDuplicates(trk.completed)
              /\ run.use_state =>
                    [j \in 1..Len(trk.marks) |-> trk.marks[j].batch]
                        = Chunks(run.files_to_process, size)

\* C33 witness: a run over two selected files with batch_size 1 has ended
\* after two extraction calls.
C33_Witness ==
    /\ run.phase = "done"
    /\ Len(run.files_to_process) = 2
    /\ run.batch_size = 1
    /\ trk.extractions = 2
    /\ Len(trk.marks) = 2

\* the last-run timestamp of a state file, -1 when it has none
LastRunOf(file) ==
    IF LoadState(file).last_run = None THEN -1 ELSE LoadState(file).last_run[1]

\* C34: a tracked directory run that selects at least one file reads the Run
\* State once; while its batches are processed the state file is not
\* written; when the run has ended the state file was written once, after
\* the last batch, with a last-run timestamp later than the one it had.
C34_StateReadOnceWrittenOnce ==
    (run.use_state /\ run.files_to_process # <<>>) =>
        /\ run.phase \in {"extract", "write", "finalize"} =>
              /\ trk.stateReads = 1
              /\ trk.stateWrites = 0
              /\ stateFile = trk.stateFileAtStart
        /\ run.phase = "done" =>
              /\ trk.stateReads = 1
              /\ trk.stateWrites = 1
              /\ trk.completed = run.files_to_process
              /\ stateFile = SaveState(tracker)
              /\ LastRunOf(stateFile) = clock
              /\ LastRunOf(stateFile) > LastRunOf(trk.stateFileAtStart)

\* C34 witness: a tracked run that found a state file has processed two
\* batches and ended.
C34_Witness ==
    /\ run.phase = "done"
    /\ run.use_state
    /\ Len(trk.marks) = 2
    /\ trk.stateFileAtStart # NoStateFile
    /\ trk.stateWrites = 1

\* C35: a tracked run that is not forced processes the discovered files that
\* the change filter selects; a forced run and a run without tracking process
\* every discovered file; a forced tracked run that has ended has recorded
\* every file it processed.
C35_FilterOnlyWhenTrackedUnforced ==
    run.phase \in {"extract", "write", "finalize", "done"} =>
        LET loaded == LoadState(trk.stateFileAtStart)
        IN  /\ (run.use_state /\ ~run.force) =>
                  run.files_to_process =
                      SelectSeq(run.md_files, LAMBDA f : ClaimUnprocessed(files, f, loaded))
            /\ (~run.use_state \/ run.force) =>
                  run.files_to_process = run.md_files
            /\ ~run.use_state => stateFile = trk.stateFileAtStart
            /\ (run.use_state /\ run.force /\ run.phase = "done") =>
                  \A j \in 1..Len(run.md_files) :
                      ~ClaimUnprocessed(files, run.md_files[j], Persisted)

\* C35 witness: a forced tracked run has processed two files that the state
\* file recorded as processed with their present content.
C35_Witness ==
    /\ run.phase = "done"
    /\ run.use_state
    /\ run.force
    /\ Len(run.files_to_process) = 2
    /\ \A j \in 1..2 :
          ~ClaimUnprocessed(files, run.md_files[j], LoadState(trk.stateFileAtStart))

\* C36: after a call of create_or_update_note for an existing note with a
\* source and a non-empty description that the note does not contain, the
\* note contains the source and the description.
C36_NewSourceAndDescriptionAdded ==
    (log # <<>> /\ Updating(LastCall)
        /\ LastCall.entity.description # <<>>
        /\ ~Contains(LastCall.before, LastCall.entity.description)) =>
        LET after == notes[NotePath(LastCall.entity)]
        IN  /\ Contains(after, LastCall.source)
            /\ Contains(after, LastCall.entity.description)

\* C37: every source that the write loop of a batch passes to
\* create_or_update_note is one of the files of that batch.
C37_SourcesAreBatchFiles ==
    run.phase = "write" =>
        \A k \in 1..Len(run.pending) : run.pending[k][2] \in Range(run.batch)

\* C38: when a tracked run has ended, the files of every batch whose response
\* gave zero entities are recorded as processed in the persisted Run State,
\* so that the change filter does not select them while their content is
\* unchanged; when every batch gave zero entities no note was written.
C38_EmptyBatchesRecorded ==
    (run.use_state /\ run.phase = "done") =>
        /\ \A m \in 1..Len(trk.marks) :
              trk.marks[m].planned = 0 =>
                  /\ \A j \in 1..Len(trk.marks[m].batch) :
                        ~ClaimUnprocessed(files, trk.marks[m].batch[j], Persisted)
                  /\ GetUnprocessedFiles(files, trk.marks[m].batch, Persisted) = <<>>
        /\ (\A m \in 1..Len(trk.marks) : trk.marks[m].planned = 0) =>
              notes = trk.notesAtStart
        /\ Concat([m \in 1..Len(trk.marks) |-> trk.marks[m].batch]) = run.files_to_process

\* C38 witness: a tracked run whose first batch gave zero entities went on
\* to a second batch, which gave entities, and ended.
C38_Witness ==
    /\ run.use_state
    /\ ~run.force
    /\ run.phase = "done"
    /\ Len(trk.marks) = 2
    /\ trk.marks[1].planned = 0
    /\ trk.marks[2].planned > 0

\* C39: whenever the fingerprint stored for a file in the persisted Run State
\* equals the fingerprint of the file's current content, that content is one
\* that process_batch has read from the file and passed to extraction, also
\* when another program writes the file between the read and the marking.
C39_StoredFingerprintIsOfReadContent ==
    \A p \in Paths :
        (/\ DictHas(Persisted.processed_files, p)
         /\ files[p].kind = "file"
         /\ DictGet(Persisted.processed_files, p).hash = Sha256(files[p].content)) =>
            files[p].content \in trk.read[p]

\* both invocations have ended
BothEnded == \A k \in Invocations : conc[k].pc = "saved"

\* the note of invocation k's entity does not list the source k added
SourceLost(k) ==
    LET p == NotePath(conc[k].entity)
    IN  \/ p \notin DOMAIN notes
        \/ \A i \in 1..Len(LoadSources(notes[p])) :
              LoadSources(notes[p])[i] # conc[k].source

\* the state file has no Change Record of the file invocation k marked
RecordLost(k) == ~DictHas(Persisted.processed_files, conc[k].source)

\* the other invocation read the note before k wrote it, and wrote it after
NoteRace(k) ==
    /\ conc[OtherInvocation(k)].readAt < conc[k].wroteAt
    /\ conc[k].wroteAt < conc[OtherInvocation(k)].wroteAt

\* the other invocation loaded the state before k saved it, and saved after
StateRace(k) ==
    /\ conc[OtherInvocation(k)].loadedAt < conc[k].savedAt
    /\ conc[k].savedAt < conc[OtherInvocation(k)].savedAt

\* C40: when two invocations with one output directory and one state file
\* have ended, the source one of them added to the note is absent from the
\* note exactly when the other read the note before that write and wrote it
\* afterwards, and the Change Record one of them saved is absent from the
\* state file exactly when the other loaded the state before that save and
\* saved afterwards: the unlocked read-modify-write steps lose updates in
\* these interleavings, and in no other.
C40_UpdatesLostExactlyInRaces ==
    BothEnded =>
        \A k \in Invocations :
            /\ SourceLost(k) <=> NoteRace(k)
            /\ RecordLost(k) <=> StateRace(k)

\* C40 witness: both invocations have ended; the source that the first added
\* to the note and the Change Record that it saved are not on disk.
C40_Witness ==
    /\ BothEnded
    /\ SourceLost(1)
    /\ RecordLost(1)
    /\ ~SourceLost(2)
    /\ ~RecordLost(2)

====
